---- MODULE Spec2Model ----
(***************************************************************************)
(* A model of digitloom: the chunk container codec (digitloom/chunked.py)  *)
(* and the single-blob encryption envelope (digitloom/crypto.py).          *)
(*                                                                         *)
(* Conventions.                                                            *)
(*  - A Python str that the code normalises (a selector) is a sequence of  *)
(*    one-character strings; a Python value stored in a dict is a tagged   *)
(*    record [t, v] (t in str, int, tuple, list, none, b64, hex).          *)
(*  - A Python dict is a function whose domain is a set of tagged keys.    *)
(*  - bytes are sequences of integers 0..255.                              *)
(*  - The external primitives are modelled ideally: SHA-256 and scrypt as  *)
(*    injective symbolic terms, an AEAD as a stream body followed by a     *)
(*    16-byte tag that is a symbolic MAC over (key, nonce, aad, body),     *)
(*    gzip as a 10-byte header, a stored deflate block and a CRC/size      *)
(*    trailer.  os.urandom is a nondeterministic choice.                   *)
(***************************************************************************)
EXTENDS Integers, Sequences, FiniteSets, TLC

VARIABLES
    files,      \* path -> the file's content, or NoFile
    files0,     \* the file system before the writer was constructed
    w,          \* the ChunkedWriter object (and where its construction stands)
    r,          \* the ChunkedReader object
    call,       \* the arguments the caller gave ChunkedWriter
    written,    \* the non-empty byte strings given to write, in order
    out,        \* what the reader's __next__ calls produced, in order
    adv,        \* what was done to the file between writer and reader
    env,        \* the envelope scenario: encrypt_blob_v1 then decrypt_blob_v1
    calc        \* the digit computation under way: its arguments, state and result

containerVars == <<files, files0, w, r, call, written, out, adv>>
envelopeVars == <<env>>
calcVars == <<calc>>
vars == <<files, files0, w, r, call, written, out, adv, env, calc>>

(***************************************************************************)
(* Bounds of the model.                                                    *)
(***************************************************************************)
MaxWrites == 2          \* write calls per writer session

(***************************************************************************)
(* Python strings and values.                                              *)
(***************************************************************************)
UpperChars == <<"A","B","C","D","E","F","G","H","I","J","K","L","M",
                "N","O","P","Q","R","S","T","U","V","W","X","Y","Z">>
LowerChars == <<"a","b","c","d","e","f","g","h","i","j","k","l","m",
                "n","o","p","q","r","s","t","u","v","w","x","y","z">>
Whitespace == {" ", "\t", "\n"}

\* str.lower()
Lower(s) ==
    [i \in 1..Len(s) |->
        IF \E j \in 1..26 : UpperChars[j] = s[i]
        THEN LowerChars[CHOOSE j \in 1..26 : UpperChars[j] = s[i]]
        ELSE s[i]]

\* str.strip()
Strip(s) ==
    LET keep == {i \in 1..Len(s) : s[i] \notin Whitespace}
    IN  IF keep = {} THEN <<>>
        ELSE SubSeq(s, CHOOSE i \in keep : \A j \in keep : i <= j,
                       CHOOSE i \in keep : \A j \in keep : i >= j)

NONE == <<"n","o","n","e">>
GZIP == <<"g","z","i","p">>
GZ == <<"g","z">>
AES256GCM == <<"a","e","s","-","2","5","6","-","g","c","m">>
CHACHA20 == <<"c","h","a","c","h","a","2","0","-","p","o","l","y","1","3","0","5">>
SCRYPT == <<"s","c","r","y","p","t">>
SHA256NAME == <<"s","h","a","2","5","6">>

PyNone == [t |-> "none", v |-> 0]
PyStr(s) == [t |-> "str", v |-> s]
PyInt(i) == [t |-> "int", v |-> i]
PyTuple(s) == [t |-> "tuple", v |-> s]
PyList(s) == [t |-> "list", v |-> s]
K(name) == [t |-> "str", v |-> name]        \* a str dict key
KInt(i) == [t |-> "int", v |-> i]           \* an int dict key

\* Python truthiness, as used by `x or default` and `if x`
Truthy(x) ==
    CASE x.t = "none" -> FALSE
      [] x.t = "int" -> x.v # 0
      [] x.t \in {"str", "tuple", "list"} -> Len(x.v) # 0
      [] OTHER -> TRUE

\* (x or "none").lower().strip()
Selector(x) == Strip(Lower((IF Truthy(x) THEN x ELSE PyStr(NONE)).v))

\* dict operations
Get(d, k) == IF k \in DOMAIN d THEN d[k] ELSE PyNone
Put(d, k, val) == [x \in (DOMAIN d) \cup {k} |-> IF x = k THEN val ELSE d[x]]
Pop(d, k) == [x \in (DOMAIN d) \ {k} |-> d[x]]
EmptyDict == [x \in {} |-> PyNone]

(***************************************************************************)
(* json.dumps then json.loads: what a dict is after a trip through its     *)
(* JSON text.  Non-str keys become their str, tuples become lists.         *)
(***************************************************************************)
JsonKey(k) == IF k.t = "int" THEN K(ToString(k.v)) ELSE k
JsonValue(x) == IF x.t = "tuple" THEN PyList(x.v) ELSE x
JsonDumps(d) ==
    [json |-> [k \in {JsonKey(x) : x \in DOMAIN d} |->
                JsonValue(d[CHOOSE x \in DOMAIN d : JsonKey(x) = k])]]
JsonLoads(b) == b.json

\* hashlib.sha256(...): an injective symbolic digest
Sha256(data) == [sha |-> data]
PyHex(h) == [t |-> "hex", v |-> h]          \* .hexdigest(): a non-empty str
FromHex(x) == x.v                           \* bytes.fromhex
PyB64(s) == [t |-> "b64", v |-> s]          \* base64.b64encode(s).decode()

_header_bytes(header) == JsonDumps(header)

_header_hash_hex(header) ==
    PyHex(Sha256(_header_bytes(Pop(header, K("header_hash")))))

\* scrypt with the password left out of the derivation
KdfIgnoresPassword(password, salt) == [pw |-> "pw", salt |-> salt]

\* scrypt: an injective symbolic key
_kdf_scrypt(password, salt) == [pw |-> password, salt |-> salt]

(***************************************************************************)
(* Sizes of the container's fields, in bytes.                              *)
(***************************************************************************)
PrologueLen == 8        \* struct ">II": raw_len, payload_len
DigestLen == 32         \* a SHA-256 digest
NonceLen == 12
TagLen == 16            \* the AEAD tag that ends a ciphertext

(***************************************************************************)
(* gzip.compress / gzip.decompress.  The stream is the 10-byte header      *)
(* (magic 31 139, method 8, flags, 4 bytes of mtime, xfl, os), one stored  *)
(* deflate block (a block header byte of which only the low 3 bits count,  *)
(* then the data) and the trailer (CRC, size).  decompress checks magic,   *)
(* method and trailer and ignores flags' text bit, mtime, xfl and os.      *)
(***************************************************************************)
RECURSIVE Crc(_)
Crc(data) ==
    IF data = <<>> THEN 7
    ELSE (Crc(Tail(data)) * 31 + Head(data) + 1) % 251

GzipHeader == <<31, 139, 8, 0, 0, 0, 0, 0, 2, 255>>
GzipHeaderLen == Len(GzipHeader)
GzipTrailerLen == Len(<<"crc", "isize">>)

GzipCompress(data) == GzipHeader \o <<1>> \o data \o <<Crc(data), Len(data) % 256>>

\* [ok, data]: ok is FALSE where gzip.decompress raises
GzipDecompress(b) ==
    LET n == Len(b)
        body == SubSeq(b, GzipHeaderLen + 2, n - GzipTrailerLen)
        bad == [ok |-> FALSE, data |-> <<>>]
    IN  IF n < GzipHeaderLen + 1 + GzipTrailerLen THEN bad
        ELSE IF b[1] # 31 \/ b[2] # 139 THEN bad          \* not a gzipped file
        ELSE IF b[3] # 8 THEN bad                           \* unknown method
        ELSE IF (b[4] \div 2) % 16 # 0 THEN bad             \* optional header fields
        ELSE IF b[GzipHeaderLen + 1] % 8 # 1 THEN bad       \* not a final stored block
        ELSE IF b[n - 1] # Crc(body) THEN bad               \* CRC check failed
        ELSE IF b[n] # Len(body) % 256 THEN bad             \* incorrect length
        ELSE [ok |-> TRUE, data |-> body]

(***************************************************************************)
(* The AEAD ciphers (AESGCM, ChaCha20Poly1305): the body is the plaintext  *)
(* under a keystream set by algorithm, key and nonce; the tag is a MAC     *)
(* over algorithm, key, nonce, associated data and body.                   *)
(***************************************************************************)
Passwords == <<"pw", "pw2">>
Salts == <<"s1", "s2">>
Nonces == <<"n1", "n2">>
Ord(x, list) == CHOOSE i \in 1..Len(list) : list[i] = x
Range(list) == {list[i] : i \in 1..Len(list)}

KeyStream(alg, key, nonce) ==
    (IF alg = AES256GCM THEN 0 ELSE 64)
    + 16 * Ord(key.pw, Passwords) + 4 * Ord(key.salt, Salts) + Ord(nonce, Nonces)

Mac(alg, key, nonce, aad, body) ==
    [alg |-> alg, key |-> key, nonce |-> nonce, aad |-> aad, body |-> body, forged |-> FALSE]

\* a payload as it lies in the file: its bytes, then (when encrypted) the tag
Payload(bytes, tag) == [bytes |-> bytes, tag |-> tag]
PayloadLen(p) == Len(p.bytes) + TagLen * Len(p.tag)

AeadEncrypt(alg, key, nonce, data, aad) ==
    LET body == [i \in 1..Len(data) |-> (data[i] + KeyStream(alg, key, nonce)) % 256]
    IN  Payload(body, <<Mac(alg, key, nonce, aad, body)>>)

\* decryption that does not look at the tag
AeadDecryptUnchecked(alg, key, nonce, p, aad) ==
    [ok |-> TRUE,
     data |-> [i \in 1..Len(p.bytes) |->
                  (p.bytes[i] + 256 - KeyStream(alg, key, nonce)) % 256]]

\* [ok, data]: ok is FALSE where decrypt raises InvalidTag
AeadDecrypt(alg, key, nonce, p, aad) ==
    IF p.tag = <<Mac(alg, key, nonce, aad, p.bytes)>>
    THEN [ok |-> TRUE,
          data |-> [i \in 1..Len(p.bytes) |->
                        (p.bytes[i] + 256 - KeyStream(alg, key, nonce)) % 256]]
    ELSE [ok |-> FALSE, data |-> <<>>]

_encrypt_chunk(key, algorithm, nonce, payload, aad) ==
    IF algorithm = AES256GCM
    THEN AeadEncrypt(AES256GCM, key, nonce, payload, aad)
    ELSE AeadEncrypt(CHACHA20, key, nonce, payload, aad)

_decrypt_chunk(key, algorithm, nonce, payload, aad) ==
    IF algorithm = AES256GCM
    THEN AeadDecrypt(AES256GCM, key, nonce, payload, aad)
    ELSE AeadDecrypt(CHACHA20, key, nonce, payload, aad)

(***************************************************************************)
(* Files.  A container file is its magic, its header text and its chunk    *)
(* records; size is the number of bytes the file holds after the header    *)
(* (less than the records' total once the file was cut), and headerWhole   *)
(* is FALSE when the file ends inside its header.                          *)
(***************************************************************************)
_MAGIC == "DLOOMCH1"
Paths == {"a.dloom", "b.dloom"}

File(magic, headerText, recs, size) ==
    [exists |-> TRUE, magic |-> magic, headerWhole |-> TRUE,
     header |-> headerText, recs |-> recs, size |-> size]
OtherFile == File("NOTDLOOM", JsonDumps(EmptyDict), <<>>, 0)
NoFile == [File("", JsonDumps(EmptyDict), <<>>, 0) EXCEPT !.exists = FALSE]

Record(raw_len, payload_len, digest, nonce, payload) ==
    [raw_len |-> raw_len, payload_len |-> payload_len, digest |-> digest,
     nonce |-> nonce, payload |-> payload]
RecordLen(rec) ==
    PrologueLen + DigestLen + NonceLen * Len(rec.nonce) + PayloadLen(rec.payload)

RECURSIVE TotalLen(_)
TotalLen(recs) ==
    IF recs = <<>> THEN 0 ELSE RecordLen(Head(recs)) + TotalLen(Tail(recs))

(***************************************************************************)
(* ChunkedWriter.                                                          *)
(***************************************************************************)
NoKey == [pw |-> "", salt |-> ""]
NoHash == Sha256(<<>>)
NoWriter ==
    [pc |-> "none", err |-> "", path |-> "", compression |-> NONE,
     encryption |-> NONE, password |-> "", key |-> NoKey, nonce_len |-> 0,
     header |-> EmptyDict, header_hash_bytes |-> NoHash, file |-> "none",
     index |-> 0, calls |-> 0]
NoCall ==
    [path |-> "", header |-> EmptyDict, compression |-> PyNone,
     encryption |-> PyNone, password |-> ""]

\* the header built without the copy of the caller's mapping
WriterHeaderDropsMeta(header, compression, encryption, salt) ==
    LET h4 == [k \in {K("version"), K("hash"), K("compression"), K("encryption")} |->
                  CASE k = K("version") -> PyInt(1)
                    [] k = K("hash") -> PyStr(SHA256NAME)
                    [] k = K("compression") -> PyStr(compression)
                    [] OTHER -> PyStr(encryption)]
        h5 == IF encryption # NONE
              THEN Put(Put(Put(h4, K("kdf"), PyStr(SCRYPT)),
                           K("salt"), PyB64(salt)),
                       K("nonce_len"), PyInt(NonceLen))
              ELSE h4
    IN  Put(h5, K("header_hash"), _header_hash_hex(h5))

\* the header ChunkedWriter.__init__ builds: base_header, lines 55-74
WriterHeader(header, compression, encryption, salt) ==
    LET h1 == Put(header, K("version"), PyInt(1))
        h2 == Put(h1, K("hash"), PyStr(SHA256NAME))
        h3 == Put(h2, K("compression"), PyStr(compression))
        h4 == Put(h3, K("encryption"), PyStr(encryption))
        h5 == IF encryption # NONE
              THEN Put(Put(Put(h4, K("kdf"), PyStr(SCRYPT)),
                           K("salt"), PyB64(salt)),
                       K("nonce_len"), PyInt(NonceLen))
              ELSE h4
    IN  Put(h5, K("header_hash"), _header_hash_hex(h5))

\* the validation without the check of the encryption selector
WriterOpenErrorAnyCipher(compression, encryption, password) ==
    IF compression \notin {NONE, GZIP, GZ} THEN "unsupported compression"
    ELSE IF encryption # NONE /\ password = ""
         THEN "password is required for encryption"
    ELSE ""

\* why ChunkedWriter.__init__ raises ValueError, or "" when it does not
WriterOpenError(compression, encryption, password) ==
    IF compression \notin {NONE, GZIP, GZ} THEN "unsupported compression"
    ELSE IF encryption # NONE /\ password = ""
         THEN "password is required for encryption"
    ELSE IF encryption # NONE /\ encryption \notin {AES256GCM, CHACHA20}
         THEN "unsupported encryption"
    ELSE ""

\* ChunkedWriter(path, header, compression, encryption, password);
\* salt is what os.urandom(16) returns
WriterOpen(path, header, compression, encryption, password, salt) ==
    /\ w.pc = "none"
    /\ r.pc = "none"
    /\ call' = [path |-> path, header |-> header, compression |-> compression,
                encryption |-> encryption, password |-> password]
    /\ LET comp == Selector(compression)
           enc == Selector(encryption)
           error == WriterOpenError(comp, enc, password)
           hdr == WriterHeader(header, comp, enc, salt)
       IN  IF error # ""
           THEN /\ w' = [NoWriter EXCEPT !.pc = "failed", !.err = error, !.path = path]
                /\ UNCHANGED files
           ELSE /\ w' = [pc |-> "open", err |-> "", path |-> path,
                         compression |-> comp, encryption |-> enc,
                         password |-> password,
                         key |-> IF enc # NONE THEN _kdf_scrypt(password, salt)
                                 ELSE NoKey,
                         nonce_len |-> IF enc # NONE THEN NonceLen ELSE 0,
                         header |-> hdr,
                         header_hash_bytes |-> FromHex(hdr[K("header_hash")]),
                         file |-> "open", index |-> 0, calls |-> 0]
                /\ files' = [files EXCEPT
                                ![path] = File(_MAGIC, _header_bytes(hdr), <<>>, 0)]
    /\ UNCHANGED <<files0, r, written, out, adv>>

\* associated data without the running index
WriterAadFirstIndex(hash, index) == <<hash, 0>>

\* the associated data of chunk number index: header hash || index.to_bytes(8)
WriterAad(hash, index) == <<hash, index>>

\* the record with the digest taken after the compression, not before
WriterRecordHashesPayload(wr, raw, nonce) ==
    LET compressed == IF wr.compression \in {GZIP, GZ} THEN GzipCompress(raw) ELSE raw
        payload == IF wr.encryption # NONE
                   THEN AeadEncrypt(wr.encryption, wr.key, nonce, compressed,
                                    <<wr.header_hash_bytes, wr.index>>)
                   ELSE Payload(compressed, <<>>)
    IN  Record(Len(raw), PayloadLen(payload), Sha256(compressed),
               IF wr.encryption # NONE THEN <<nonce>> ELSE <<>>, payload)

\* the record ChunkedWriter.write appends for raw; nonce is os.urandom(12)
WriterRecord(wr, raw, nonce) ==
    LET compressed == IF wr.compression \in {GZIP, GZ} THEN GzipCompress(raw) ELSE raw
        payload == IF wr.encryption # NONE
                   THEN _encrypt_chunk(wr.key, wr.encryption, nonce, compressed,
                                       WriterAad(wr.header_hash_bytes, wr.index))
                   ELSE Payload(compressed, <<>>)
    IN  Record(Len(raw), PayloadLen(payload), Sha256(raw),
               IF wr.encryption # NONE THEN <<nonce>> ELSE <<>>, payload)

\* ChunkedWriter.write(raw)
Write(raw, nonce) ==
    /\ w.pc = "open"
    /\ w.calls < MaxWrites
    /\ IF raw = <<>>
       THEN /\ w' = [w EXCEPT !.calls = @ + 1]
            /\ UNCHANGED <<files, written>>
       ELSE /\ files' = [files EXCEPT ![w.path] =
                           [@ EXCEPT !.recs = Append(@, WriterRecord(w, raw, nonce)),
                                     !.size = @ + RecordLen(WriterRecord(w, raw, nonce))]]
            /\ w' = [w EXCEPT !.index = @ + 1, !.calls = @ + 1]
            /\ written' = Append(written, raw)
    /\ UNCHANGED <<files0, r, call, out, adv>>

\* ChunkedWriter.close(), also what __exit__ does
WriterClose ==
    /\ w.pc = "open"
    /\ w' = [w EXCEPT !.pc = "closed",
                      !.file = IF w.file = "open" THEN "closed" ELSE @]
    /\ UNCHANGED <<files, files0, r, call, written, out, adv>>

(***************************************************************************)
(* ChunkedReader.                                                          *)
(***************************************************************************)
NoReader ==
    [pc |-> "none", err |-> "", path |-> "", password |-> "", file |-> "none",
     header |-> EmptyDict, header_hash_bytes |-> NoHash, compression |-> NONE,
     encryption |-> NONE, nonce_len |-> 0, key |-> NoKey, index |-> 0,
     pos |-> 0, ri |-> 0]

B64Decode(x) == x.v
\* int(x or 0)
IntOr0(x) == IF Truthy(x) THEN x.v ELSE 0

\* the check of lines 134-136: TRUE when the header is refused
HeaderHashMismatch(header) ==
    /\ Truthy(Get(header, K("header_hash")))
    /\ Get(header, K("header_hash")) # _header_hash_hex(header)

\* why ChunkedReader.__init__ raises after it opened the file, or ""
ReaderOpenError(f, password) ==
    LET header == JsonLoads(f.header)
        compression == Selector(Get(header, K("compression")))
        encryption == Selector(Get(header, K("encryption")))
    IN  IF f.magic # _MAGIC THEN "invalid magic"
        ELSE IF ~f.headerWhole THEN "invalid header"
        ELSE IF HeaderHashMismatch(header) THEN "header hash mismatch"
        ELSE IF compression \notin {NONE, GZIP, GZ} THEN "unsupported compression"
        ELSE IF encryption # NONE /\ password = ""
             THEN "password is required for decryption"
        ELSE IF encryption # NONE /\ ~Truthy(Get(header, K("salt")))
             THEN "missing salt"
        ELSE ""

\* the key ChunkedReader.__init__ derives, lines 143-151
ReaderKey(header, encryption, password) ==
    IF encryption # NONE
    THEN _kdf_scrypt(password, B64Decode(Get(header, K("salt"))))
    ELSE NoKey

\* ChunkedReader(path, password)
ReaderOpen(path, password) ==
    /\ r.pc = "none"
    /\ w.pc \in {"closed", "failed"}
    /\ LET f == files[path]
           header == JsonLoads(f.header)
           encryption == Selector(Get(header, K("encryption")))
       IN  IF ~f.exists
           THEN r' = [NoReader EXCEPT !.pc = "failed", !.err = "FileNotFoundError",
                                      !.path = path, !.password = password]
           ELSE IF ReaderOpenError(f, password) # ""
           THEN r' = [NoReader EXCEPT !.pc = "failed",
                                      !.err = ReaderOpenError(f, password),
                                      !.path = path, !.password = password,
                                      !.file = "open"]
           ELSE r' = [pc |-> "open", err |-> "", path |-> path,
                      password |-> password, file |-> "open", header |-> header,
                      header_hash_bytes |-> FromHex(_header_hash_hex(header)),
                      compression |-> Selector(Get(header, K("compression"))),
                      encryption |-> encryption,
                      nonce_len |-> IntOr0(Get(header, K("nonce_len"))),
                      key |-> ReaderKey(header, encryption, password),
                      index |-> 0, pos |-> 0, ri |-> 0]
    /\ UNCHANGED <<files, files0, w, call, written, adv>>
    /\ UNCHANGED out

Data(bytes) == [t |-> "data", v |-> bytes, err |-> ""]
Raised(msg) == [t |-> "error", v |-> <<>>, err |-> msg]
StopIteration == [t |-> "stop", v |-> <<>>, err |-> ""]

\* the associated data without the chunk's index
ReaderAadNoIndex(hash, index) == <<hash, 0>>

\* the associated data the reader expects of the chunk it reads next
ReaderAad(hash, index) == <<hash, index>>

\* what __next__ makes of a whole record: lines 176-187
Decode(rd, rec) ==
    LET dec == IF rd.encryption # NONE
               THEN _decrypt_chunk(rd.key, rd.encryption, Head(rec.nonce), rec.payload,
                                   ReaderAad(rd.header_hash_bytes, rd.index))
               ELSE [ok |-> TRUE, data |-> rec.payload.bytes]
        unz == IF ~dec.ok THEN dec
               ELSE IF rd.compression \in {GZIP, GZ} THEN GzipDecompress(dec.data)
               ELSE dec
    IN  IF ~dec.ok THEN Raised("InvalidTag")
        ELSE IF ~unz.ok THEN Raised("BadGzipFile")
        ELSE IF Len(unz.data) # rec.raw_len THEN Raised("invalid chunk length")
        ELSE IF Sha256(unz.data) # rec.digest THEN Raised("chunk hash mismatch")
        ELSE Data(unz.data)

\* the reads with a partial header taken for the end of the file
ReadOutcomeShortIsEof(avail, nl, payload_len) ==
    IF avail < PrologueLen THEN "eof"
    ELSE IF avail < PrologueLen + DigestLen THEN "invalid chunk hash"
    ELSE IF avail < PrologueLen + DigestLen + nl THEN "invalid nonce"
    ELSE IF avail < PrologueLen + DigestLen + nl + payload_len
         THEN "invalid chunk payload"
    ELSE "ok"

\* the reads of lines 158-175 with avail bytes left in the file, of a
\* record with a nonce of nl bytes and a payload of payload_len bytes
ReadOutcome(avail, nl, payload_len) ==
    IF avail = 0 THEN "eof"
    ELSE IF avail < PrologueLen THEN "invalid chunk header"
    ELSE IF avail < PrologueLen + DigestLen THEN "invalid chunk hash"
    ELSE IF avail < PrologueLen + DigestLen + nl THEN "invalid nonce"
    ELSE IF avail < PrologueLen + DigestLen + nl + payload_len
         THEN "invalid chunk payload"
    ELSE "ok"

\* ChunkedReader.__next__(): the reads, then Decode
ReaderNext ==
    /\ r.pc = "open"
    /\ (IF out = <<>> THEN TRUE ELSE out[Len(out)].t # "stop")
    /\ LET f == files[r.path]
           avail == f.size - r.pos
           rec == f.recs[r.ri + 1]
           nl == IF r.encryption # NONE THEN r.nonce_len ELSE 0
           payload_len == IF r.ri < Len(f.recs) THEN rec.payload_len ELSE 0
           need == PrologueLen + DigestLen + nl + payload_len
           got == ReadOutcome(avail, nl, payload_len)
       IN  IF got = "eof"
           THEN /\ out' = Append(out, StopIteration)
                /\ UNCHANGED r
           ELSE IF got # "ok"
           THEN /\ out' = Append(out, Raised(got))
                /\ r' = [r EXCEPT !.pos = f.size]
           ELSE /\ out' = Append(out, Decode(r, rec))
                /\ r' = [r EXCEPT !.pos = @ + need, !.ri = @ + 1,
                                  !.index = IF Decode(r, rec).t = "data"
                                            THEN @ + 1 ELSE @]
    /\ UNCHANGED <<files, files0, w, call, written, adv>>

\* ChunkedReader.close(), also what __exit__ does
ReaderClose ==
    /\ r.pc = "open"
    /\ r' = [r EXCEPT !.pc = "closed",
                      !.file = IF r.file = "open" THEN "closed" ELSE @]
    /\ UNCHANGED <<files, files0, w, call, written, out, adv>>

(***************************************************************************)
(* The write-then-read sessions on an untouched file system.               *)
(***************************************************************************)
Chr(c) == <<c>>
Metas ==
    { [k \in {K("int_part"), K("base")} |->
          IF k = K("base") THEN PyInt(10) ELSE PyStr(Chr("3"))],
      [k \in {K("version"), K("salt")} |->
          IF k = K("version") THEN PyInt(7) ELSE PyStr(Chr("x"))],
      [k \in {KInt(1), K("pair")} |->
          IF k = KInt(1) THEN PyStr(Chr("x")) ELSE PyTuple(<<1, 2>>)] }
CompressionArgs ==
    { PyStr(NONE), PyStr(<<" ", "G", "z", "i", "p">>), PyStr(GZ),
      PyStr(<<"z", "i", "p">>), PyStr(<<>>) }
EncryptionArgs ==
    { PyStr(NONE), PyStr(<<"A","E","S","-","2","5","6","-","G","C","M"," ">>),
      PyStr(CHACHA20), PyStr(<<"r", "o", "t", "1", "3">>) }
WriterPasswords == {"", "pw"}
ReaderPasswords == {"", "pw", "pw2"}
Raws == { <<>>, <<49, 52>>, <<49, 53>> }

NoAdv == [kind |-> "none", i |-> 0, j |-> 0, before |-> [p \in Paths |-> NoFile]]
NoBlob ==
    [magic |-> "", alg_id |-> 0, salt |-> "", nonce |-> "",
     meta_bytes |-> JsonDumps(EmptyDict), ct |-> Payload(<<>>, <<>>), prologue |-> 0]
NoTamper == [kind |-> "none", n |-> 0]
NoResult == [t |-> "none", pt |-> <<>>, meta |-> EmptyDict, type |-> "", err |-> ""]
NoCalc == [op |-> "none"]
NoEnv ==
    [pc |-> "unused", plaintext |-> <<>>, password |-> "", algorithm |-> <<>>,
     meta |-> EmptyDict, blob |-> NoBlob, tamper |-> NoTamper, dpassword |-> "",
     result |-> NoResult]

Init ==
    /\ files = [p \in Paths |-> IF p = "a.dloom" THEN NoFile ELSE OtherFile]
    /\ files0 = files
    /\ w = NoWriter
    /\ r = NoReader
    /\ call = NoCall
    /\ written = <<>>
    /\ out = <<>>
    /\ adv = NoAdv
    /\ env = NoEnv
    /\ calc = NoCalc

Next ==
    \/ \E path \in Paths, header \in Metas, compression \in CompressionArgs,
          encryption \in EncryptionArgs, password \in WriterPasswords,
          salt \in Range(Salts) :
          /\ WriterOpen(path, header, compression, encryption, password, salt)
          /\ UNCHANGED <<envelopeVars, calcVars>>
    \/ \E raw \in Raws, nonce \in Range(Nonces) :
          Write(raw, nonce) /\ UNCHANGED <<envelopeVars, calcVars>>
    \/ WriterClose /\ UNCHANGED <<envelopeVars, calcVars>>
    \/ \E password \in ReaderPasswords :
          ReaderOpen(call.path, password) /\ UNCHANGED <<envelopeVars, calcVars>>
    \/ ReaderNext /\ UNCHANGED <<envelopeVars, calcVars>>
    \/ ReaderClose /\ UNCHANGED <<envelopeVars, calcVars>>

Spec == Init /\ [][Next]_vars

(***************************************************************************)
(* Claims checked under Spec.                                              *)
(***************************************************************************)
FormatErrors ==
    {"invalid chunk header", "invalid chunk hash", "invalid nonce",
     "invalid chunk payload"}

\* C1 (container round trip): a reader opened with the writer's password on
\* the file a closed writer left opens, and its calls to __next__ return the
\* non-empty written byte strings one by one in write order, then end the
\* iteration; none of them raises.
C1_RoundTrip ==
    (w.pc = "closed" /\ r.pc # "none" /\ r.password = w.password) =>
        /\ r.pc # "failed"
        /\ Len(out) <= Len(written) + 1
        /\ \A i \in 1..Len(out) :
              IF i <= Len(written) THEN out[i] = Data(written[i])
              ELSE out[i] = StopIteration

\* a gzip-compressed AES-GCM container of two chunks read back to its end
C1_Witness ==
    /\ w.pc = "closed" /\ r.pc = "closed" /\ r.password = w.password
    /\ w.compression = GZIP /\ w.encryption = AES256GCM
    /\ written = << <<49, 52>>, <<49, 53>> >>
    /\ out = <<Data(<<49, 52>>), Data(<<49, 53>>), StopIteration>>

\* the records of the open or closed writer's file
WriterRecs == files[w.path].recs

\* what holds of the writer's file after any number of writes
AppendedInOrder ==
    w.pc \in {"open", "closed"} =>
        /\ w.index = Len(written)
        /\ w.index <= w.calls
        /\ Len(WriterRecs) = w.index
        /\ \A k \in 1..Len(WriterRecs) :
              /\ WriterRecs[k].raw_len = Len(written[k])
              /\ WriterRecs[k].digest = Sha256(written[k])
              /\ w.encryption # NONE =>
                    /\ Len(WriterRecs[k].payload.tag) = 1
                    /\ WriterRecs[k].payload.tag[1].aad = <<w.header_hash_bytes, k - 1>>

\* what one write call does: nothing for empty input, and otherwise one
\* record after the records that were there, which stay as they were
WriteAppends ==
    (w.pc = "open" /\ w'.calls = w.calls + 1) =>
        IF written' = written
        THEN files' = files /\ w'.index = w.index
        ELSE /\ w'.index = w.index + 1
             /\ Len(files'[w.path].recs) = Len(WriterRecs) + 1
             /\ SubSeq(files'[w.path].recs, 1, Len(WriterRecs)) = WriterRecs
             /\ \A p \in Paths \ {w.path} : files'[p] = files[p]

\* C26 (append-only chunk order): the index of an open ChunkedWriter is the
\* number of non-empty writes so far; the k-th non-empty write is the k-th
\* record of the file, framed with chunk index k - 1 in the associated data
\* when encrypting, and is appended after the earlier records, which are
\* not modified; a write of empty input changes neither the file nor the
\* index.
C26_AppendOnly == []AppendedInOrder /\ [][WriteAppends]_vars

\* two non-empty writes under encryption
C26_Witness ==
    /\ w.pc = "open" /\ w.encryption = CHACHA20 /\ w.index = 2
    /\ Len(WriterRecs) = 2
    /\ WriterRecs[2].payload.tag[1].aad = <<w.header_hash_bytes, 1>>

\* an empty write after a non-empty one
C26_WitnessEmpty ==
    /\ w.pc = "open" /\ w.calls = 2 /\ w.index = 1 /\ Len(WriterRecs) = 1

CodecFields ==
    {K("version"), K("hash"), K("compression"), K("encryption"), K("kdf"),
     K("salt"), K("nonce_len"), K("header_hash")}
JsonNative == {"str", "int", "list", "none"}

\* C6 as stated (metadata pass-through): the header the reader sees holds
\* every key of the caller's mapping with exactly the caller's value.
C6_Original ==
    r.pc = "open" =>
        \A k \in DOMAIN call.header :
            k \in DOMAIN r.header /\ r.header[k] = call.header[k]

\* C6 amended: every caller entry with a str key that is not one of the
\* codec's field names and is not the JSON form of another key of the
\* mapping, and with a value JSON holds as it is, is in the
\* reader's header unchanged; the codec's fields carry the codec's values;
\* and the header has no key that is neither the caller's nor the codec's.
C6_PassThrough ==
    r.pc = "open" =>
        /\ \A k \in DOMAIN call.header :
              (/\ k.t = "str" /\ k \notin CodecFields
               /\ call.header[k].t \in JsonNative
               /\ \A c \in DOMAIN call.header : JsonKey(c) = k => c = k)
                  => (k \in DOMAIN r.header /\ r.header[k] = call.header[k])
        /\ Get(r.header, K("version")) = PyInt(1)
        /\ Get(r.header, K("hash")) = PyStr(SHA256NAME)
        /\ Get(r.header, K("compression")) = PyStr(w.compression)
        /\ Get(r.header, K("encryption")) = PyStr(w.encryption)
        /\ \A k \in DOMAIN r.header :
              \/ k \in CodecFields
              \/ k \in DOMAIN call.header
              \/ \E c \in DOMAIN call.header : c.t = "int" /\ k = K(ToString(c.v))

\* the test's header entry int_part = "3" read back from an encrypted container
C6_Witness ==
    /\ r.pc = "open" /\ w.encryption # NONE
    /\ K("int_part") \in DOMAIN call.header
    /\ Get(r.header, K("int_part")) = PyStr(Chr("3"))
    /\ Get(r.header, K("base")) = PyInt(10)

\* a selector compared case-insensitively after trimming
Trimmed(x) == Strip(Lower(x.v))
\* the same, an empty selector meaning none
TrimmedOrNone(x) == IF x.v = <<>> THEN NONE ELSE Trimmed(x)

C8_WrongPassword ==
    (/\ w.pc = "closed" /\ w.encryption # NONE
     /\ r.pc # "none" /\ r.password # w.password)
    => IF r.password = ""
       THEN /\ r.pc = "failed"
            /\ r.err = "password is required for decryption"
            /\ out = <<>>
       ELSE /\ r.pc # "failed"
            /\ Len(out) <= Len(written) + 1
            /\ \A i \in 1..Len(out) :
                  IF i <= Len(written) THEN out[i] = Raised("InvalidTag")
                  ELSE out[i] = StopIteration

\* two chunks written under pw, both refused under pw2
C8_Witness ==
    /\ w.pc = "closed" /\ w.password = "pw" /\ r.password = "pw2"
    /\ Len(written) = 2
    /\ out = <<Raised("InvalidTag"), Raised("InvalidTag"), StopIteration>>

\* C9 (handle release): once a writer or reader session is over, by close or
\* by a failed construction, the file handle it opened is closed.
C9_HandlesReleased ==
    /\ w.pc \in {"closed", "failed"} => w.file # "open"
    /\ r.pc \in {"closed", "failed"} => r.file # "open"

(***************************************************************************)
(* A container that is changed between its writer and its reader: one byte *)
(* of a chunk's payload altered, the file cut short, or the header edited. *)
(* The edits leave the encryption field alone, so that the reader frames   *)
(* the records as the writer did.                                          *)
(***************************************************************************)
Changed(kind, i, j) == [kind |-> kind, i |-> i, j |-> j, before |-> files]

\* payload p with its byte j changed by d; a byte past the body is a tag byte
TamperedPayload(p, j, d) ==
    IF j <= Len(p.bytes)
    THEN [p EXCEPT !.bytes[j] = (@ + d) % 256]
    ELSE [p EXCEPT !.tag[1].forged = TRUE]

Deltas == {1, 128}

\* one byte of the payload of one record is changed (the byte after the body
\* stands for each of the tag's bytes)
TamperPayload(path) ==
    /\ w.pc = "closed" /\ r.pc = "none" /\ adv.kind = "none"
    /\ \E i \in 1..Len(files[path].recs) :
          \E j \in 1..(Len(files[path].recs[i].payload.bytes)
                       + Len(files[path].recs[i].payload.tag)), d \in Deltas :
              /\ files' = [files EXCEPT
                              ![path].recs[i].payload = TamperedPayload(@, j, d)]
              /\ adv' = Changed("tamper", i, j)
    /\ UNCHANGED <<files0, w, r, call, written, out>>

\* the file is cut at a byte offset at or after the end of its header
Truncate(path) ==
    /\ w.pc = "closed" /\ r.pc = "none" /\ adv.kind = "none"
    /\ \E n \in 0..(files[path].size - 1) :
          /\ files' = [files EXCEPT ![path].size = n]
          /\ adv' = Changed("cut", n, 0)
    /\ UNCHANGED <<files0, w, r, call, written, out>>

HeaderEdits ==
    {"drop_hash", "empty_hash", "wrong_hash", "field", "field_drop_hash",
     "field_new_hash", "compression", "cut_header"}

EditedHeader(h, how) ==
    LET field == Put(h, K("int_part"), PyStr(Chr("4")))
    IN  CASE how = "drop_hash" -> Pop(h, K("header_hash"))
          [] how = "empty_hash" -> Put(h, K("header_hash"), PyStr(<<>>))
          [] how = "wrong_hash" -> Put(h, K("header_hash"), _header_hash_hex(EmptyDict))
          [] how = "field" -> field
          [] how = "field_drop_hash" -> Pop(field, K("header_hash"))
          [] how = "field_new_hash" -> Put(field, K("header_hash"), _header_hash_hex(field))
          [] how = "compression" ->
                Put(h, K("compression"),
                    PyStr(IF Get(h, K("compression")) = PyStr(NONE) THEN GZIP ELSE NONE))
          [] OTHER -> h

\* the header text is edited, or the file is cut inside its header
EditHeader(path, how) ==
    /\ w.pc = "closed" /\ r.pc = "none" /\ adv.kind = "none"
    /\ files' = [files EXCEPT ![path] =
                    IF how = "cut_header"
                    THEN [@ EXCEPT !.headerWhole = FALSE, !.recs = <<>>, !.size = 0]
                    ELSE [@ EXCEPT !.header = JsonDumps(EditedHeader(JsonLoads(@), how))]]
    /\ adv' = Changed(how, 0, 0)
    /\ UNCHANGED <<files0, w, r, call, written, out>>

AdvMeta ==
    [k \in {K("int_part"), K("base")} |->
        IF k = K("base") THEN PyInt(10) ELSE PyStr(Chr("3"))]
AdvRaws == { <<49, 52>>, <<49, 53>> }

NextAdv ==
    \/ \E compression \in {PyStr(NONE), PyStr(GZIP)},
          encryption \in {PyStr(NONE), PyStr(AES256GCM), PyStr(CHACHA20)} :
          /\ WriterOpen("a.dloom", AdvMeta, compression, encryption, "pw", "s1")
          /\ UNCHANGED <<envelopeVars, calcVars>>
    \/ \E raw \in AdvRaws : Write(raw, "n1") /\ UNCHANGED <<envelopeVars, calcVars>>
    \/ WriterClose /\ UNCHANGED <<envelopeVars, calcVars>>
    \/ TamperPayload("a.dloom") /\ UNCHANGED <<envelopeVars, calcVars>>
    \/ Truncate("a.dloom") /\ UNCHANGED <<envelopeVars, calcVars>>
    \/ \E how \in HeaderEdits : EditHeader("a.dloom", how) /\ UNCHANGED <<envelopeVars, calcVars>>
    \/ (adv.kind # "none" /\ ReaderOpen("a.dloom", w.password)) /\ UNCHANGED <<envelopeVars, calcVars>>
    \/ ReaderNext /\ UNCHANGED <<envelopeVars, calcVars>>
    \/ ReaderClose /\ UNCHANGED <<envelopeVars, calcVars>>

SpecAdv == Init /\ [][NextAdv]_vars

(***************************************************************************)
(* Claims checked under SpecAdv.                                           *)
(***************************************************************************)
\* C2 as stated (tamper detection): after one byte of the payload of chunk
\* i was changed, the reader's read of chunk i raises and returns no data.
C2_TamperDetected ==
    (adv.kind = "tamper" /\ Len(out) >= adv.i) => out[adv.i].t = "error"

\* C4 as stated (header integrity): a reader opens only a container whose
\* header carries a header_hash equal to the hash recomputed over the other
\* header fields.
C4_HeaderIntegrity ==
    r.pc = "open" =>
        Get(r.header, K("header_hash")) = _header_hash_hex(r.header)

\* the records of f that lie wholly inside the file
RECURSIVE WholeRecords(_, _)
WholeRecords(recs, size) ==
    IF recs = <<>> \/ RecordLen(Head(recs)) > size THEN 0
    ELSE 1 + WholeRecords(Tail(recs), size - RecordLen(Head(recs)))

\* C5 (truncation): on a container cut at a byte offset after its header the
\* reader returns the chunks whose records lie wholly inside the file, in
\* order; its next call ends the iteration when the cut is on a record
\* boundary and raises a format error when it is not.
C5_Truncation ==
    (adv.kind = "cut" /\ r.pc # "none") =>
        LET f == files[r.path]
            k == WholeRecords(f.recs, f.size)
        IN  /\ r.pc # "failed"
            /\ \A i \in 1..Len(out) :
                  /\ i <= k => out[i] = Data(written[i])
                  /\ i = k + 1 =>
                        IF f.size = TotalLen(SubSeq(f.recs, 1, k))
                        THEN out[i] = StopIteration
                        ELSE out[i].t = "error" /\ out[i].err \in FormatErrors

\* a cut inside the second record: one chunk returned, then a format error
C5_Witness ==
    /\ adv.kind = "cut" /\ r.pc = "closed" /\ Len(files[r.path].recs) = 2
    /\ Len(out) = 2 /\ out[1] = Data(written[1])
    /\ out[2] = Raised("invalid chunk payload")

\* a cut on the boundary after the first record: one chunk, then the end
C5_WitnessBoundary ==
    /\ adv.kind = "cut" /\ r.pc = "closed" /\ Len(files[r.path].recs) = 2
    /\ out = <<Data(written[1]), StopIteration>>

(***************************************************************************)
(* Two encrypted containers, a.dloom then b.dloom, and a.dloom's records   *)
(* rearranged before it is read: two swapped, one dropped, one duplicated, *)
(* or one of b.dloom's put in.                                             *)
(***************************************************************************)
InsertAt(seq, at, x) == SubSeq(seq, 1, at - 1) \o <<x>> \o SubSeq(seq, at, Len(seq))
RemoveAt(seq, i) == SubSeq(seq, 1, i - 1) \o SubSeq(seq, i + 1, Len(seq))

\* a second ChunkedWriter is constructed once the first is closed
SecondWriter ==
    /\ w.pc = "closed" /\ w.path = "a.dloom" /\ r.pc = "none" /\ adv.kind = "none"
    /\ w' = NoWriter
    /\ UNCHANGED <<files, files0, r, call, written, out, adv>>

Rearranged(kind, i, j, recs) ==
    /\ files' = [files EXCEPT !["a.dloom"].recs = recs,
                              !["a.dloom"].size = TotalLen(recs)]
    /\ adv' = Changed(kind, i, j)
    /\ UNCHANGED <<files0, w, r, call, written, out>>

Rearrange ==
    /\ w.pc = "closed" /\ w.path = "b.dloom" /\ r.pc = "none" /\ adv.kind = "none"
    /\ LET a == files["a.dloom"].recs
           b == files["b.dloom"].recs
       IN  \/ \E i \in 1..Len(a), j \in 1..Len(a) :
                 /\ i < j
                 /\ Rearranged("swap", i, j, [a EXCEPT ![i] = a[j], ![j] = a[i]])
           \/ \E i \in 1..Len(a) : Rearranged("drop", i, 0, RemoveAt(a, i))
           \/ \E i \in 1..Len(a), at \in 1..(Len(a) + 1) :
                 Rearranged("duplicate", i, at, InsertAt(a, at, a[i]))
           \/ \E j \in 1..Len(b), at \in 1..(Len(a) + 1) :
                 Rearranged("splice", j, at, InsertAt(a, at, b[j]))

SpliceMetas ==
    { AdvMeta, [k \in {K("int_part")} |-> PyStr(Chr("3"))] }
SpliceRaws == { <<49, 52>> }

NextSplice ==
    \/ \E header \in SpliceMetas, salt \in Range(Salts), password \in Range(Passwords) :
          /\ files["a.dloom"].exists \/ password = "pw"
          /\ WriterOpen(IF files["a.dloom"].exists THEN "b.dloom" ELSE "a.dloom",
                        header, PyStr(NONE), PyStr(AES256GCM), password, salt)
          /\ UNCHANGED <<envelopeVars, calcVars>>
    \/ \E raw \in SpliceRaws : Write(raw, "n1") /\ UNCHANGED <<envelopeVars, calcVars>>
    \/ WriterClose /\ UNCHANGED <<envelopeVars, calcVars>>
    \/ SecondWriter /\ UNCHANGED <<envelopeVars, calcVars>>
    \/ Rearrange /\ UNCHANGED <<envelopeVars, calcVars>>
    \/ (adv.kind # "none" /\ ReaderOpen("a.dloom", "pw")) /\ UNCHANGED <<envelopeVars, calcVars>>
    \/ ReaderNext /\ UNCHANGED <<envelopeVars, calcVars>>
    \/ ReaderClose /\ UNCHANGED <<envelopeVars, calcVars>>

SpecSplice == Init /\ [][NextSplice]_vars

(***************************************************************************)
(* Claims checked under SpecSplice.                                        *)
(***************************************************************************)
HeaderHashOf(f) == _header_hash_hex(JsonLoads(f.header))

\* rec was written as chunk number index (from 0) of a container whose
\* header hash is that of f
WrittenAt(rec, index, f) ==
    \E p \in Paths :
        /\ adv.before[p].exists
        /\ HeaderHashOf(adv.before[p]) = HeaderHashOf(f)
        /\ index + 1 <= Len(adv.before[p].recs)
        /\ adv.before[p].recs[index + 1] = rec

\* the chunks the reader accepted before its call number k
Accepted(k) == Cardinality({i \in 1..(k - 1) : out[i].t = "data"})

\* C3 (position and container binding): the reader of a rearranged
\* encrypted container accepts a record only as the chunk number it was
\* written as (the number of chunks the reader has returned so far), in a
\* container with the same header hash; every other record, the first
\* displaced one included, makes the read raise InvalidTag and return no
\* data; and the records before the first displaced one are returned.
C3_Binding ==
    (adv.kind \in {"swap", "drop", "duplicate", "splice"} /\ r.pc # "none") =>
        LET f == files["a.dloom"]
            orig == adv.before["a.dloom"].recs
        IN  /\ r.pc = "open" \/ r.pc = "closed"
            /\ \A k \in 1..Len(out) :
                  out[k].t # "stop" =>
                      /\ out[k].t = "data" => WrittenAt(f.recs[k], Accepted(k), f)
                      /\ ~WrittenAt(f.recs[k], Accepted(k), f)
                            => out[k] = Raised("InvalidTag")
                      /\ (\A i \in 1..k : i <= Len(orig) /\ f.recs[i] = orig[i])
                            => out[k].t = "data"

\* two records swapped: the read of the first, which was written as chunk 1,
\* raises; a caller that goes on reading gets the record written as chunk 0
\* as the first chunk the reader returns
C3_Witness ==
    /\ adv.kind = "swap" /\ r.pc = "closed"
    /\ out = <<Raised("InvalidTag"), Data(<<49, 52>>), StopIteration>>

\* a record of a container written under the same password put in after the
\* first record: the first is returned, the read of the second raises
C3_WitnessSplice ==
    /\ adv.kind = "splice" /\ adv.j = 2 /\ w.password = "pw" /\ r.pc = "closed"
    /\ Len(out) >= 2 /\ out[1].t = "data" /\ out[2] = Raised("InvalidTag")

(***************************************************************************)
(* The encryption envelope (crypto.py): one blob encrypted, then           *)
(* decrypted.  A blob is its fields: magic, algorithm id, salt, nonce, the *)
(* metadata's JSON text (whose length field is implied) and ciphertext;    *)
(* prologue is the number of bytes present of the fixed-size prologue.     *)
(***************************************************************************)
crypto_MAGIC == "DLOOM1"
_ALG_AESGCM == 1
_ALG_CHACHA20 == 2
MagicLen == 6           \* len(_MAGIC)
SaltLen == 16
MetaLenLen == 4         \* the big-endian length of the metadata's text
EnvelopePrologueLen == MagicLen + 1 + SaltLen + NonceLen + MetaLenLen

EnvOk(pt, meta) == [t |-> "ok", pt |-> pt, meta |-> meta, type |-> "", err |-> ""]
EnvRaised(type, msg) ==
    [t |-> "error", pt |-> <<>>, meta |-> EmptyDict, type |-> type, err |-> msg]

\* the metadata without the caller's entries
EnvelopeMetaDropsCaller(aad, algorithm) ==
    Put(Put(EmptyDict, K("kdf"), PyStr(SCRYPT)), K("alg"), PyStr(algorithm))

\* meta = dict(aad); meta["kdf"] = "scrypt"; meta["alg"] = algorithm
EnvelopeMeta(aad, algorithm) ==
    Put(Put(aad, K("kdf"), PyStr(SCRYPT)), K("alg"), PyStr(algorithm))

\* [err, blob]: err is "" where a blob is returned.  salt and nonce are the
\* draws of os.urandom.  (The metadata's text is far below 2^32 bytes.)
encrypt_blob_v1(plaintext, password, algorithm, aad, salt, nonce) ==
    LET alg == Strip(Lower(algorithm))
        meta_bytes == JsonDumps(EnvelopeMeta(aad, alg))
    IN  IF password = ""
        THEN [err |-> "password is required", blob |-> NoBlob]
        ELSE IF alg \notin {AES256GCM, CHACHA20}
        THEN [err |-> "unsupported algorithm", blob |-> NoBlob]
        ELSE [err |-> "",
              blob |-> [magic |-> crypto_MAGIC,
                        alg_id |-> IF alg = AES256GCM THEN _ALG_AESGCM
                                                      ELSE _ALG_CHACHA20,
                        salt |-> salt,
                        nonce |-> nonce,
                        meta_bytes |-> meta_bytes,
                        ct |-> AeadEncrypt(alg, _kdf_scrypt(password, salt), nonce,
                                           plaintext, meta_bytes),
                        prologue |-> EnvelopePrologueLen]]

\* json.loads raises JSONDecodeError on a text that is not JSON
JsonParses(b) == DOMAIN b = {"json"}

\* every algorithm id but 1 taken for chacha20-poly1305
EnvelopeCipherElseChaCha(alg_id) ==
    IF alg_id = _ALG_AESGCM THEN AES256GCM ELSE CHACHA20

\* the cipher of an algorithm id, <<>> for an id the code does not know
EnvelopeCipher(alg_id) ==
    IF alg_id = _ALG_AESGCM THEN AES256GCM
    ELSE IF alg_id = _ALG_CHACHA20 THEN CHACHA20
    ELSE <<>>

\* decryption that parses the metadata before it authenticates
decrypt_blob_v1ParsesFirst(blob, password) ==
    IF password = "" THEN EnvRaised("ValueError", "password is required")
    ELSE IF blob.prologue < EnvelopePrologueLen
    THEN EnvRaised("ValueError", "invalid blob")
    ELSE IF blob.magic # crypto_MAGIC THEN EnvRaised("ValueError", "invalid magic")
    ELSE IF ~JsonParses(blob.meta_bytes) THEN EnvRaised("JSONDecodeError", "")
    ELSE IF EnvelopeCipher(blob.alg_id) = <<>>
    THEN EnvRaised("ValueError", "unsupported algorithm id")
    ELSE LET d == AeadDecrypt(EnvelopeCipher(blob.alg_id),
                              _kdf_scrypt(password, blob.salt), blob.nonce,
                              blob.ct, blob.meta_bytes)
         IN  IF d.ok THEN EnvOk(d.data, JsonLoads(blob.meta_bytes))
             ELSE EnvRaised("InvalidTag", "")

decrypt_blob_v1(blob, password) ==
    IF password = "" THEN EnvRaised("ValueError", "password is required")
    ELSE IF blob.prologue < EnvelopePrologueLen
    THEN EnvRaised("ValueError", "invalid blob")
    ELSE IF blob.magic # crypto_MAGIC THEN EnvRaised("ValueError", "invalid magic")
    ELSE IF EnvelopeCipher(blob.alg_id) = <<>>
    THEN EnvRaised("ValueError", "unsupported algorithm id")
    ELSE LET d == AeadDecrypt(EnvelopeCipher(blob.alg_id),
                              _kdf_scrypt(password, blob.salt), blob.nonce,
                              blob.ct, blob.meta_bytes)
         IN  IF ~d.ok THEN EnvRaised("InvalidTag", "")
             ELSE IF ~JsonParses(blob.meta_bytes) THEN EnvRaised("JSONDecodeError", "")
             ELSE EnvOk(d.data, JsonLoads(blob.meta_bytes))

EnvelopeMetas ==
    { [k \in {K("a")} |-> PyInt(1)],
      [k \in {K("a"), K("alg")} |->
          IF k = K("a") THEN PyInt(1) ELSE PyStr(<<"r", "o", "t", "1", "3">>)],
      [k \in {K("kdf")} |-> PyStr(NONE)],
      [k \in {KInt(1), K("pair")} |->
          IF k = KInt(1) THEN PyStr(Chr("x")) ELSE PyTuple(<<1, 2>>)],
      EmptyDict }
EnvelopeAlgorithms ==
    { AES256GCM, CHACHA20, <<" ","C","h","a","C","h","a","2","0","-","P","o","l","y","1","3","0","5">>,
      <<"r", "o", "t", "1", "3">> }
EnvelopePlaintexts == { <<>>, <<104, 105>> }

Encrypt ==
    /\ env.pc = "unused"
    /\ \E plaintext \in EnvelopePlaintexts, password \in ReaderPasswords,
          algorithm \in EnvelopeAlgorithms, aad \in EnvelopeMetas,
          salt \in Range(Salts) :
          LET res == encrypt_blob_v1(plaintext, password, algorithm, aad, salt, "n1")
          IN  env' = [pc |-> IF res.err = "" THEN "encrypted" ELSE "failed",
                      plaintext |-> plaintext, password |-> password,
                      algorithm |-> algorithm, meta |-> aad, blob |-> res.blob,
                      tamper |-> NoTamper, dpassword |-> "",
                      result |-> IF res.err = "" THEN NoResult
                                 ELSE EnvRaised("ValueError", res.err)]

Decrypt ==
    /\ env.pc = "encrypted"
    /\ \E password \in ReaderPasswords :
          env' = [env EXCEPT !.pc = "decrypted", !.dpassword = password,
                             !.result = decrypt_blob_v1(env.blob, password)]

NextEnvelope ==
    \/ Encrypt /\ UNCHANGED <<containerVars, calcVars>>
    \/ Decrypt /\ UNCHANGED <<containerVars, calcVars>>

SpecEnvelope == Init /\ [][NextEnvelope]_vars

(***************************************************************************)
(* Claims checked under SpecEnvelope.                                      *)
(***************************************************************************)
EnvelopeFields == {K("alg"), K("kdf")}

\* C10 as stated (envelope round-trip): decrypting a blob with the password
\* it was encrypted with returns the plaintext and a metadata mapping that
\* holds every entry of the caller's mapping with the caller's value, and
\* also alg = the algorithm and kdf = scrypt.
C10_Original ==
    (env.pc = "decrypted" /\ env.dpassword = env.password) =>
        /\ env.result.t = "ok"
        /\ env.result.pt = env.plaintext
        /\ \A k \in DOMAIN env.meta :
              k \in DOMAIN env.result.meta /\ env.result.meta[k] = env.meta[k]
        /\ Get(env.result.meta, K("alg")) = PyStr(Strip(Lower(env.algorithm)))
        /\ Get(env.result.meta, K("kdf")) = PyStr(SCRYPT)

\* C10 amended: decrypting a blob with the password it was encrypted with
\* returns the plaintext and a metadata mapping that holds every caller
\* entry with a str key other than alg and kdf that is not the JSON form of
\* another key, and with a value JSON holds as it is, unchanged; alg is the
\* algorithm's lower-case trimmed name and kdf is scrypt, whatever the
\* caller gave under these keys; and the mapping has no key that is neither
\* the caller's nor one of these two.
C10_RoundTrip ==
    (env.pc = "decrypted" /\ env.dpassword = env.password) =>
        /\ env.result.t = "ok"
        /\ env.result.pt = env.plaintext
        /\ \A k \in DOMAIN env.meta :
              (/\ k.t = "str" /\ k \notin EnvelopeFields
               /\ env.meta[k].t \in JsonNative
               /\ \A c \in DOMAIN env.meta : JsonKey(c) = k => c = k)
                  => (k \in DOMAIN env.result.meta
                      /\ env.result.meta[k] = env.meta[k])
        /\ Strip(Lower(env.algorithm)) \in {AES256GCM, CHACHA20}
        /\ Get(env.result.meta, K("alg")) = PyStr(Strip(Lower(env.algorithm)))
        /\ Get(env.result.meta, K("kdf")) = PyStr(SCRYPT)
        /\ \A k \in DOMAIN env.result.meta :
              k \in EnvelopeFields \/ \E c \in DOMAIN env.meta : JsonKey(c) = k

\* the test's round trip under chacha20-poly1305, the caller's own alg entry
\* overwritten
C10_Witness ==
    /\ env.pc = "decrypted" /\ env.dpassword = "pw" /\ env.password = "pw"
    /\ env.blob.alg_id = _ALG_CHACHA20
    /\ env.plaintext = <<104, 105>> /\ env.result.pt = <<104, 105>>
    /\ K("alg") \in DOMAIN env.meta
    /\ Get(env.result.meta, K("a")) = PyInt(1)
    /\ Get(env.result.meta, K("alg")) = PyStr(CHACHA20)

\* C11 (envelope wrong password): decrypting a blob with a non-empty
\* password other than the one it was encrypted with raises the AEAD's
\* authentication error and returns neither plaintext nor metadata.
C11_WrongPassword ==
    (env.pc = "decrypted" /\ env.dpassword # "" /\ env.dpassword # env.password) =>
        /\ env.result = EnvRaised("InvalidTag", "")
        /\ env.result.pt = <<>>
        /\ env.result.meta = EmptyDict

\* a non-empty plaintext under aes-256-gcm and "pw", decrypted with "pw2"
C11_Witness ==
    /\ env.pc = "decrypted" /\ env.password = "pw" /\ env.dpassword = "pw2"
    /\ env.blob.alg_id = _ALG_AESGCM /\ env.plaintext = <<104, 105>>
    /\ env.result.t = "error"

(***************************************************************************)
(* A blob altered between encrypt_blob_v1 and decrypt_blob_v1: a field of  *)
(* it changed, or the blob cut inside its fixed-size prologue.             *)
(***************************************************************************)
Tampered(kind, n, blob) ==
    env' = [env EXCEPT !.blob = blob, !.tamper = [kind |-> kind, n |-> n]]

\* the first n bytes of the blob, n less than the prologue's length
CutBlob(blob, n) ==
    [NoBlob EXCEPT !.magic = IF n >= MagicLen THEN blob.magic ELSE "",
                   !.alg_id = IF n > MagicLen THEN blob.alg_id ELSE 0,
                   !.prologue = n]

TamperBlob ==
    /\ env.pc = "encrypted" /\ env.tamper = NoTamper
    /\ LET b == env.blob
       IN  \/ \E salt \in Range(Salts) \ {b.salt} :
                 Tampered("salt", 0, [b EXCEPT !.salt = salt])
           \/ \E nonce \in Range(Nonces) \ {b.nonce} :
                 Tampered("nonce", 0, [b EXCEPT !.nonce = nonce])
           \/ Tampered("aad_value", 0,
                  [b EXCEPT !.meta_bytes =
                      JsonDumps(Put(JsonLoads(@), K("kdf"), PyStr(NONE)))])
           \/ Tampered("aad_syntax", 0,
                  [b EXCEPT !.meta_bytes = [json |-> @.json, broken |-> TRUE]])
           \/ \E j \in 1..(Len(b.ct.bytes) + 1), d \in Deltas :
                 Tampered("ct", j, [b EXCEPT !.ct = TamperedPayload(@, j, d)])
           \/ \E n \in {0, MagicLen - 1, MagicLen, EnvelopePrologueLen - 1} :
                 Tampered("cut", n, CutBlob(b, n))
           \/ Tampered("magic", 0, [b EXCEPT !.magic = "DLOOM2"])
           \/ \E id \in {0, 3, 255} :
                 Tampered("alg_id", id, [b EXCEPT !.alg_id = id])
           \/ Tampered("alg_swap", 0,
                  [b EXCEPT !.alg_id = IF @ = _ALG_AESGCM THEN _ALG_CHACHA20
                                                         ELSE _ALG_AESGCM])

NextEnvelopeAdv ==
    \/ Encrypt /\ UNCHANGED <<containerVars, calcVars>>
    \/ TamperBlob /\ UNCHANGED <<containerVars, calcVars>>
    \/ Decrypt /\ UNCHANGED <<containerVars, calcVars>>

SpecEnvelopeAdv == Init /\ [][NextEnvelopeAdv]_vars

(***************************************************************************)
(* Claims checked under SpecEnvelopeAdv.                                   *)
(***************************************************************************)
AuthenticationFailure == EnvRaised("InvalidTag", "")

\* C12 (no failure oracle in the envelope): decrypting an unaltered blob
\* with a wrong non-empty password, and decrypting with the right password
\* a blob whose salt, nonce, metadata bytes or ciphertext were altered, end
\* in one and the same outcome, the AEAD's authentication failure; the
\* metadata is not parsed before authentication, so altered metadata bytes
\* that are not JSON give this outcome too, and metadata is returned only
\* from an unaltered blob.
C12_NoOracle ==
    env.pc = "decrypted" =>
        /\ (/\ env.tamper = NoTamper
            /\ env.dpassword # "" /\ env.dpassword # env.password)
              => env.result = AuthenticationFailure
        /\ (/\ env.tamper.kind \in {"salt", "nonce", "aad_value", "aad_syntax", "ct"}
            /\ env.dpassword = env.password)
              => env.result = AuthenticationFailure
        /\ env.result.t = "ok" => env.tamper = NoTamper

\* metadata bytes altered into a text that is not JSON, right password
C12_Witness ==
    /\ env.pc = "decrypted" /\ env.tamper.kind = "aad_syntax"
    /\ env.dpassword = env.password
    /\ env.result = AuthenticationFailure

\* a ciphertext byte altered, right password
C12_WitnessCiphertext ==
    /\ env.pc = "decrypted" /\ env.tamper.kind = "ct" /\ env.tamper.n = 1
    /\ env.dpassword = env.password
    /\ env.result = AuthenticationFailure

\* C13 (envelope format rejection): with a non-empty password, a blob
\* shorter than the fixed prologue, a blob that does not start with the
\* magic and a blob whose algorithm id is neither 1 nor 2 each make
\* decrypt_blob_v1 raise ValueError and return no plaintext.
C13_FormatRejected ==
    (/\ env.pc = "decrypted" /\ env.dpassword # ""
     /\ \/ env.blob.prologue < EnvelopePrologueLen
        \/ env.blob.magic # crypto_MAGIC
        \/ env.blob.alg_id \notin {_ALG_AESGCM, _ALG_CHACHA20}) =>
        /\ env.result.t = "error" /\ env.result.type = "ValueError"
        /\ env.result.pt = <<>>
        /\ env.result.err =
              IF env.blob.prologue < EnvelopePrologueLen THEN "invalid blob"
              ELSE IF env.blob.magic # crypto_MAGIC THEN "invalid magic"
              ELSE "unsupported algorithm id"

\* a blob whose algorithm id was set to 3, decrypted with the right password
C13_Witness ==
    /\ env.pc = "decrypted" /\ env.tamper = [kind |-> "alg_id", n |-> 3]
    /\ env.dpassword = env.password
    /\ env.result = EnvRaised("ValueError", "unsupported algorithm id")

\* a blob of 38 bytes
C13_WitnessShort ==
    /\ env.pc = "decrypted" /\ env.blob.prologue = EnvelopePrologueLen - 1
    /\ env.dpassword = "pw"
    /\ env.result = EnvRaised("ValueError", "invalid blob")

(***************************************************************************)
(* The types of the failures (checked under Spec).                         *)
(***************************************************************************)
\* the Python exception class a failure is raised as: the codec raises
\* ValueError with a message; InvalidTag comes from the AEAD, BadGzipFile
\* from gzip.decompress, FileNotFoundError from open
ExceptionType(err) ==
    IF err \in {"InvalidTag", "BadGzipFile", "FileNotFoundError"} THEN err
    ELSE "ValueError"

\* the class of a failure, by what it reports
FailureClass(err) ==
    CASE err \in {"unsupported encryption", "password is required for encryption",
                  "password is required for decryption"}
             -> "invalid argument"
      [] err \in {"invalid magic", "invalid header", "header hash mismatch",
                  "invalid chunk header", "invalid chunk hash", "invalid nonce",
                  "invalid chunk payload"}
             -> "format"
      [] err \in {"chunk hash mismatch", "invalid chunk length"} -> "integrity"
      [] err = "InvalidTag" -> "authentication"
      [] OTHER -> "other"

\* the failures the callers of the writer and the reader have seen
Failures ==
    ({w.err, r.err} \cup {out[i].err : i \in 1..Len(out)}) \ {""}

\* C14 (distinct typed failures): two failures of different classes among
\* invalid argument, format, integrity and authentication are raised as
\* different types.
C14_DistinctTypes ==
    \A e1 \in Failures, e2 \in Failures :
        (/\ FailureClass(e1) # "other" /\ FailureClass(e2) # "other"
         /\ FailureClass(e1) # FailureClass(e2))
            => ExceptionType(e1) # ExceptionType(e2)

(***************************************************************************)
(* Python's int: unbounded integers, here a sign and a magnitude held as   *)
(* limbs in base 10^4, least significant first, without leading zero       *)
(* limbs (zero is the empty magnitude).                                    *)
(***************************************************************************)
Limb == 100 * 100

RECURSIVE MagOf(_)
MagOf(n) == IF n = 0 THEN <<>> ELSE <<n % Limb>> \o MagOf(n \div Limb)

RECURSIVE Trim(_)
Trim(m) ==
    IF m = <<>> THEN m
    ELSE IF m[Len(m)] # 0 THEN m
    ELSE Trim(SubSeq(m, 1, Len(m) - 1))

LimbAt(a, i) == IF i <= Len(a) THEN a[i] ELSE 0

\* the element of a one-element set; { e(v) : v \in {x} } has x worked out
\* once, before e
Only(S) == CHOOSE x \in S : TRUE

\* The limb operations below work on a range of limb positions lo..hi and
\* split it in halves, the carry, borrow or remainder going from one half
\* into the other.
WithCarry(limbs, carry) == [limbs |-> limbs, carry |-> carry]
CarryOut(res) == IF res.carry = 0 THEN res.limbs ELSE Append(res.limbs, res.carry)

\* [limbs, carry] of a + b + carry at the positions lo..hi
RECURSIVE MagAddRange(_, _, _, _, _)
MagAddRange(a, b, lo, hi, carry) ==
    IF lo = hi
    THEN Only({ WithCarry(<<sum % Limb>>, sum \div Limb) :
                sum \in {LimbAt(a, lo) + LimbAt(b, lo) + carry} })
    ELSE Only({ Only({ WithCarry(left.limbs \o right.limbs, right.carry) :
                       right \in {MagAddRange(a, b, ((lo + hi) \div 2) + 1, hi,
                                              left.carry)} }) :
                left \in {MagAddRange(a, b, lo, (lo + hi) \div 2, carry)} })
MagAdd(a, b) ==
    IF a = <<>> THEN b
    ELSE IF b = <<>> THEN a
    ELSE CarryOut(MagAddRange(a, b, 1, IF Len(a) > Len(b) THEN Len(a) ELSE Len(b), 0))

\* [limbs, carry] of a - b - carry at the positions lo..hi, carry the borrow
RECURSIVE MagSubRange(_, _, _, _, _)
MagSubRange(a, b, lo, hi, carry) ==
    IF lo = hi
    THEN Only({ WithCarry(<<(d + Limb) % Limb>>, IF d < 0 THEN 1 ELSE 0) :
                d \in {LimbAt(a, lo) - LimbAt(b, lo) - carry} })
    ELSE Only({ Only({ WithCarry(left.limbs \o right.limbs, right.carry) :
                       right \in {MagSubRange(a, b, ((lo + hi) \div 2) + 1, hi,
                                              left.carry)} }) :
                left \in {MagSubRange(a, b, lo, (lo + hi) \div 2, carry)} })
\* a - b for a >= b
MagSub(a, b) ==
    IF a = <<>> THEN <<>> ELSE Trim(MagSubRange(a, b, 1, Len(a), 0).limbs)

\* a < b: the lengths decide, or else the topmost limb that differs
MagLess(a, b) ==
    IF Len(a) # Len(b) THEN Len(a) < Len(b)
    ELSE IF a = b THEN FALSE
    ELSE IF a[Len(a)] # b[Len(a)] THEN a[Len(a)] < b[Len(a)]
    ELSE \E i \in 1..Len(a) :
            /\ a[i] < b[i]
            /\ \A j \in (i + 1)..Len(a) : a[j] = b[j]

\* [limbs, carry] of a * m + carry at the positions lo..hi, m one limb
RECURSIVE MagMulLimbRange(_, _, _, _, _)
MagMulLimbRange(a, m, lo, hi, carry) ==
    IF lo = hi
    THEN Only({ WithCarry(<<prod % Limb>>, prod \div Limb) :
                prod \in {a[lo] * m + carry} })
    ELSE Only({ Only({ WithCarry(left.limbs \o right.limbs, right.carry) :
                       right \in {MagMulLimbRange(a, m, ((lo + hi) \div 2) + 1, hi,
                                                  left.carry)} }) :
                left \in {MagMulLimbRange(a, m, lo, (lo + hi) \div 2, carry)} })
MagMulLimb(a, m) ==
    IF m = 0 \/ a = <<>> THEN <<>>
    ELSE CarryOut(MagMulLimbRange(a, m, 1, Len(a), 0))

\* a times the limbs lo..hi of b
RECURSIVE MagMulRange(_, _, _, _)
MagMulRange(a, b, lo, hi) ==
    IF lo = hi THEN MagMulLimb(a, b[lo])
    ELSE Only({ MagAdd(low, [i \in 1..(((lo + hi) \div 2) + 1 - lo) |-> 0] \o high) :
                low \in {MagMulRange(a, b, lo, (lo + hi) \div 2)},
                high \in {MagMulRange(a, b, ((lo + hi) \div 2) + 1, hi)} })
MagMul(a, b) ==
    IF a = <<>> \/ b = <<>> THEN <<>> ELSE Trim(MagMulRange(a, b, 1, Len(b)))

\* the largest c in lo..(hi - 1) with c * b <= cur, given lo * b <= cur < hi * b
RECURSIVE QuoLimb(_, _, _, _)
QuoLimb(cur, b, lo, hi) ==
    IF hi - lo = 1 THEN lo
    ELSE IF MagLess(cur, MagMulLimb(b, (lo + hi) \div 2))
    THEN QuoLimb(cur, b, lo, (lo + hi) \div 2)
    ELSE QuoLimb(cur, b, (lo + hi) \div 2, hi)

WithRemainder(quo, rem) == [q |-> quo, r |-> rem]

\* long division of a by b # 0 over a's limbs hi down to lo, rem being what
\* is left of the limbs above hi: [q, r], q the quotient's limbs lo..hi
RECURSIVE MagDivRange(_, _, _, _, _)
MagDivRange(a, b, hi, lo, rem) ==
    IF lo = hi
    THEN Only({ Only({ WithRemainder(<<c>>,
                           IF c = 0 THEN cur ELSE MagSub(cur, MagMulLimb(b, c))) :
                       c \in {IF MagLess(cur, b) THEN 0
                              ELSE QuoLimb(cur, b, 1, Limb)} }) :
                cur \in {Trim(<<a[lo]>> \o rem)} })
    ELSE Only({ Only({ WithRemainder(lower.q \o upper.q, lower.r) :
                       lower \in {MagDivRange(a, b, (lo + hi) \div 2, lo, upper.r)} }) :
                upper \in {MagDivRange(a, b, hi, ((lo + hi) \div 2) + 1, rem)} })
\* [q, r] with a = q * b + r and r < b
MagDivMod(a, b) ==
    IF MagLess(a, b) THEN WithRemainder(<<>>, a)
    ELSE Only({ WithRemainder(Trim(d.q), d.r) :
                d \in {MagDivRange(a, b, Len(a), 1, <<>>)} })

IntOf(n) == [neg |-> n < 0, mag |-> MagOf(IF n < 0 THEN 0 - n ELSE n)]
Signed(neg, mag) == [neg |-> neg /\ mag # <<>>, mag |-> mag]
IntNeg(x) == Signed(~x.neg, x.mag)
IntAddValues(x, y) ==
    IF x.neg = y.neg THEN Signed(x.neg, MagAdd(x.mag, y.mag))
    ELSE IF MagLess(x.mag, y.mag) THEN Signed(y.neg, MagSub(y.mag, x.mag))
    ELSE Signed(x.neg, MagSub(x.mag, y.mag))
IntAdd(x, y) == Only({ IntAddValues(u, v) : u \in {x}, v \in {y} })
IntSub(x, y) == Only({ IntAddValues(u, IntNeg(v)) : u \in {x}, v \in {y} })
IntMul(x, y) ==
    Only({ Only({ Signed(u.neg # v.neg, mag) : mag \in {MagMul(u.mag, v.mag)} }) :
           u \in {x}, v \in {y} })
IntLessValues(x, y) ==
    IF x.neg # y.neg THEN x.neg
    ELSE IF x.neg THEN MagLess(y.mag, x.mag)
    ELSE MagLess(x.mag, y.mag)
IntLess(x, y) == \E u \in {x}, v \in {y} : IntLessValues(u, v)
\* x // y: the quotient rounded toward minus infinity
IntFloorDiv(x, y) ==
    Only({ Only({ IF u.neg = v.neg THEN Signed(FALSE, d.q)
                  ELSE IF d.r = <<>> THEN Signed(TRUE, d.q)
                  ELSE Signed(TRUE, MagAdd(d.q, <<1>>)) :
                  d \in {MagDivMod(u.mag, v.mag)} }) :
           u \in {x}, v \in {y} })

\* the value of x as a model integer, for x of at most two limbs
Small(x) ==
    LET v == (IF Len(x.mag) >= 1 THEN x.mag[1] ELSE 0)
             + (IF Len(x.mag) >= 2 THEN x.mag[2] * Limb ELSE 0)
    IN  IF x.neg THEN 0 - v ELSE v

\* str(x) for x >= 0, as the sequence of its decimal digits
LimbDigits(v) == <<v \div 1000, (v \div 100) % 10, (v \div 10) % 10, v % 10>>
RECURSIVE DropZeros(_)
DropZeros(ds) ==
    IF Len(ds) > 1 /\ ds[1] = 0 THEN DropZeros(Tail(ds)) ELSE ds
MagDigits(m) ==
    [i \in 1..(4 * Len(m)) |->
        LimbDigits(m[Len(m) - ((i - 1) \div 4)])[((i - 1) % 4) + 1]]
IntDigits(x) == IF x.mag = <<>> THEN <<0>> ELSE DropZeros(MagDigits(x.mag))

(***************************************************************************)
(* The spigot generator of pi's decimal digits (constants.py).  One step   *)
(* of the model is one pass of the generator's loop; at a yield the        *)
(* generator is suspended until the next digit is asked for.               *)
(***************************************************************************)
MaxDigits == 51         \* digits asked of the spigot generator

\* the fractional digits of the tests' reference literal PI_80
PI_80 ==
    <<1, 4, 1, 5, 9, 2, 6, 5, 3, 5, 8, 9, 7, 9, 3, 2, 3, 8, 4, 6,
      2, 6, 4, 3, 3, 8, 3, 2, 7, 9, 5, 0, 2, 8, 8, 4, 1, 9, 7, 1,
      6, 9, 3, 9, 9, 3, 7, 5, 1, 0, 5, 8, 2, 0, 9, 7, 4, 9, 4, 4,
      5, 9, 2, 3, 0, 7, 8, 1, 6, 4, 0, 6, 2, 8, 6, 2, 0, 8, 9, 9>>

DigitChars == <<"0", "1", "2", "3", "4", "5", "6", "7", "8", "9">>
\* str(n) of an int n
Str(n) ==
    LET ds == IntDigits(IntOf(n))
        cs == [i \in 1..Len(ds) |-> DigitChars[ds[i] + 1]]
    IN  IF n < 0 THEN <<"-">> \o cs ELSE cs

\* g = pi_digits_spigot(): the generator before its first next(g)
SpigotInit ==
    [op |-> "spigot", pc |-> "run", q |-> IntOf(1), r |-> IntOf(0), t |-> IntOf(1),
     k |-> 1, n |-> 3, l |-> 3, emitted |-> <<>>]

\* 4 * q + r - t < n * t
SpigotEmits(c) ==
    IntLess(IntSub(IntAdd(IntMul(IntOf(4), c.q), c.r), c.t),
            IntMul(IntOf(c.n), c.t))

\* the assignment after the yield with n' = (10 * (3 * q + r)) // t
SpigotAfterYieldKeepsTens(c) ==
    [c EXCEPT !.pc = "run",
              !.q = IntMul(IntOf(10), c.q),
              !.r = IntMul(IntOf(10), IntSub(c.r, IntMul(IntOf(c.n), c.t))),
              !.n = Small(IntFloorDiv(IntMul(IntOf(10),
                                             IntAdd(IntMul(IntOf(3), c.q), c.r)), c.t))]

\* the assignment after the yield
SpigotAfterYield(c) ==
    [c EXCEPT !.pc = "run",
              !.q = IntMul(IntOf(10), c.q),
              !.r = IntMul(IntOf(10), IntSub(c.r, IntMul(IntOf(c.n), c.t))),
              !.n = Small(IntSub(
                        IntFloorDiv(IntMul(IntOf(10),
                                           IntAdd(IntMul(IntOf(3), c.q), c.r)), c.t),
                        IntOf(10 * c.n)))]

\* an else branch that advances l by 1
SpigotElseOddStep(c) ==
    [c EXCEPT !.q = IntMul(c.q, IntOf(c.k)),
              !.r = IntMul(IntAdd(IntMul(IntOf(2), c.q), c.r), IntOf(c.l)),
              !.t = IntMul(c.t, IntOf(c.l)),
              !.k = c.k + 1,
              !.n = Small(IntFloorDiv(
                        IntAdd(IntMul(c.q, IntOf(7 * c.k + 2)),
                               IntMul(c.r, IntOf(c.l))),
                        IntMul(c.t, IntOf(c.l)))),
              !.l = c.l + 1]

\* an else branch that assigns l alone, 3 and 5 in turn
SpigotElseTurns(c) == [c EXCEPT !.l = IF c.l = 3 THEN 5 ELSE 3]

\* the assignment of the else branch
SpigotElse(c) ==
    [c EXCEPT !.q = IntMul(c.q, IntOf(c.k)),
              !.r = IntMul(IntAdd(IntMul(IntOf(2), c.q), c.r), IntOf(c.l)),
              !.t = IntMul(c.t, IntOf(c.l)),
              !.k = c.k + 1,
              !.n = Small(IntFloorDiv(
                        IntAdd(IntMul(c.q, IntOf(7 * c.k + 2)),
                               IntMul(c.r, IntOf(c.l))),
                        IntMul(c.t, IntOf(c.l)))),
              !.l = c.l + 2]

SpigotStart ==
    /\ calc = NoCalc
    /\ calc' = SpigotInit

\* a pass of the loop that yields n
SpigotYield ==
    /\ calc.op = "spigot" /\ calc.pc = "run"
    /\ SpigotEmits(calc)
    /\ calc' = [calc EXCEPT !.pc = "yield", !.emitted = Append(@, calc.n)]

\* next(g) on the suspended generator
SpigotResume ==
    /\ calc.op = "spigot" /\ calc.pc = "yield"
    /\ Len(calc.emitted) < MaxDigits
    /\ calc' = SpigotAfterYield(calc)

\* a pass of the loop that yields nothing
SpigotStep ==
    /\ calc.op = "spigot" /\ calc.pc = "run"
    /\ ~SpigotEmits(calc)
    /\ calc' = SpigotElse(calc)

NextSpigot ==
    \/ SpigotStart /\ UNCHANGED <<containerVars, envelopeVars>>
    \/ SpigotYield /\ UNCHANGED <<containerVars, envelopeVars>>
    \/ SpigotResume /\ UNCHANGED <<containerVars, envelopeVars>>
    \/ SpigotStep /\ UNCHANGED <<containerVars, envelopeVars>>

SpecSpigot == Init /\ [][NextSpigot]_vars

\* format_spigot_pi(prefix_digits) given the values the generator yields,
\* for prefix_digits >= 1
RECURSIVE JoinStr(_, _, _)
JoinStr(values, from, to) ==
    IF from > to THEN <<>>
    ELSE IF from = to THEN Str(values[from])
    ELSE JoinStr(values, from, (from + to) \div 2)
         \o JoinStr(values, ((from + to) \div 2) + 1, to)
format_spigot_pi(values, prefix_digits) ==
    Str(values[1]) \o <<".">> \o JoinStr(values, 2, prefix_digits)

(***************************************************************************)
(* Claims checked under SpecSpigot.                                        *)
(***************************************************************************)
\* the first n decimal digits of pi: 3, then the reference's fractional digits
PiDigits(n) == <<3>> \o SubSeq(PI_80, 1, n - 1)
\* "3." and the first n - 1 fractional digits
PiText(n) ==
    <<"3", ".">> \o [i \in 1..(n - 1) |-> DigitChars[PI_80[i] + 1]]

\* C18 (spigot correctness): for every N >= 1 the first N values the
\* generator yields are the first N decimal digits of pi, and
\* format_spigot_pi(N) is "3." followed by the first N - 1 fractional
\* digits.
C18_SpigotDigits ==
    calc.op = "spigot" =>
        \A N \in 1..Len(calc.emitted) :
            /\ SubSeq(calc.emitted, 1, N) = PiDigits(N)
            /\ format_spigot_pi(calc.emitted, N) = PiText(N)

\* the 51st value yielded: format_spigot_pi(51) is the test's literal, which
\* ends in 37510
C18_Witness ==
    /\ calc.op = "spigot" /\ Len(calc.emitted) = 51
    /\ format_spigot_pi(calc.emitted, 51) = PiText(51)
    /\ SubSeq(PiText(51), 48, 52) = <<"3", "7", "5", "1", "0">>

\* what holds of the six variables and of the values yielded
SpigotStateOk ==
    calc.op = "spigot" =>
        /\ IntLess(IntOf(0), calc.t)
        /\ IntLess(IntOf(0), calc.q)
        /\ calc.k >= 1
        /\ calc.l = 2 * calc.k + 1
        /\ \A i \in 1..Len(calc.emitted) : calc.emitted[i] \in 0..9

\* the yield and the assignment after it keep t, k and l; a pass of the
\* else branch multiplies t by l and advances k by 1 and l by 2
SpigotStepKeeps ==
    (calc.op = "spigot" /\ calc'.op = "spigot") =>
        IF calc.pc = "yield" \/ calc'.pc = "yield"
        THEN /\ calc'.t = calc.t /\ calc'.k = calc.k /\ calc'.l = calc.l
             /\ calc'.pc = "yield" => calc'.emitted = Append(calc.emitted, calc.n)
        ELSE /\ calc'.t = IntMul(calc.t, IntOf(calc.l))
             /\ calc'.k = calc.k + 1 /\ calc'.l = calc.l + 2
             /\ calc'.emitted = calc.emitted

\* C29 (spigot state invariant): in every state reached from
\* (q, r, t, k, n, l) = (1, 0, 1, 1, 3, 3), t >= 1, q >= 1, k >= 1 and
\* l = 2k + 1; an emitting step leaves t, k and l unchanged; and every value
\* emitted is a decimal digit in 0..9.
C29_SpigotInvariant == []SpigotStateOk /\ [][SpigotStepKeeps]_vars

\* the state after the tenth digit: passes of both branches lie behind
C29_Witness ==
    /\ calc.op = "spigot" /\ calc.pc = "run" /\ Len(calc.emitted) = 10
    /\ calc.k > 10 /\ calc.l = 2 * calc.k + 1
    /\ IntLess(IntOf(1), calc.t)

\* Within a call of next(g) the generator's loop runs on until it yields:
\* a pass of the loop that can be taken is taken.  This is the weak fairness
\* WF_vars(SpigotLoop), written out with SpigotRuns for
\* ENABLED <<SpigotLoop>>_vars: the guards of the two branches are
\* complementary, and a pass of either changes k or pc.
SpigotLoop ==
    (SpigotStep \/ SpigotYield) /\ UNCHANGED <<containerVars, envelopeVars>>
SpigotRuns == calc.op = "spigot" /\ calc.pc = "run"
SpigotLoopFair == []<>~SpigotRuns \/ []<><<SpigotLoop>>_vars
SpecSpigotLive == SpecSpigot /\ SpigotLoopFair

\* C30 (spigot progress): from every state in which the generator runs, a
\* yield is reached after finitely many passes of the else branch, so every
\* next(g) returns.
C30_SpigotProgress ==
    (calc.op = "spigot" /\ calc.pc = "run") ~> (calc.op = "spigot" /\ calc.pc = "yield")

\* the yield of the third digit, reached after passes of the else branch
C30_Witness ==
    /\ calc.op = "spigot" /\ calc.pc = "yield" /\ calc.emitted = <<3, 1, 4>>
    /\ calc.k > 3

(***************************************************************************)
(* mpmath's mpf at a working precision of prec bits (bbp.py sets mp.prec): *)
(* binary floating point, every operation rounded to the nearest value of  *)
(* prec significant bits, ties to even. An mpf is held as a signed integer *)
(* count of 2^-FracBits, its magnitude as limbs in base 2^14, least        *)
(* significant first. With prec <= 132 every value the series adds is at   *)
(* least 2^-(prec - 11), so its last significant bit is worth at least     *)
(* 2^-FracBits and the count is exact.                                     *)
(***************************************************************************)
LimbBits == 14
BinLimb == 2 ^ LimbBits
FracLimbs == 20
FracBits == FracLimbs * LimbBits

\* [limbs, carry] of a + b + carry at the positions lo..hi
RECURSIVE BinAddRange(_, _, _, _, _)
BinAddRange(a, b, lo, hi, carry) ==
    IF lo = hi
    THEN Only({ WithCarry(<<sum % BinLimb>>, sum \div BinLimb) :
                sum \in {LimbAt(a, lo) + LimbAt(b, lo) + carry} })
    ELSE Only({ Only({ WithCarry(left.limbs \o right.limbs, right.carry) :
                       right \in {BinAddRange(a, b, ((lo + hi) \div 2) + 1, hi,
                                              left.carry)} }) :
                left \in {BinAddRange(a, b, lo, (lo + hi) \div 2, carry)} })
BinAdd(a, b) ==
    IF a = <<>> THEN b
    ELSE IF b = <<>> THEN a
    ELSE CarryOut(BinAddRange(a, b, 1, IF Len(a) > Len(b) THEN Len(a) ELSE Len(b), 0))

\* [limbs, carry] of a - b - carry at the positions lo..hi, carry the borrow
RECURSIVE BinSubRange(_, _, _, _, _)
BinSubRange(a, b, lo, hi, carry) ==
    IF lo = hi
    THEN Only({ WithCarry(<<(d + BinLimb) % BinLimb>>, IF d < 0 THEN 1 ELSE 0) :
                d \in {LimbAt(a, lo) - LimbAt(b, lo) - carry} })
    ELSE Only({ Only({ WithCarry(left.limbs \o right.limbs, right.carry) :
                       right \in {BinSubRange(a, b, ((lo + hi) \div 2) + 1, hi,
                                              left.carry)} }) :
                left \in {BinSubRange(a, b, lo, (lo + hi) \div 2, carry)} })
\* a - b for a >= b
BinSub(a, b) ==
    IF a = <<>> THEN <<>> ELSE Trim(BinSubRange(a, b, 1, Len(a), 0).limbs)

\* [limbs, carry] of a * m + carry at the positions lo..hi, m below 2^14
RECURSIVE BinMulRange(_, _, _, _, _)
BinMulRange(a, m, lo, hi, carry) ==
    IF lo = hi
    THEN Only({ WithCarry(<<prod % BinLimb>>, prod \div BinLimb) :
                prod \in {a[lo] * m + carry} })
    ELSE Only({ Only({ WithCarry(left.limbs \o right.limbs, right.carry) :
                       right \in {BinMulRange(a, m, ((lo + hi) \div 2) + 1, hi,
                                              left.carry)} }) :
                left \in {BinMulRange(a, m, lo, (lo + hi) \div 2, carry)} })
BinMul(a, m) ==
    IF m = 0 \/ a = <<>> THEN <<>>
    ELSE CarryOut(BinMulRange(a, m, 1, Len(a), 0))

\* division of a by d, 1 <= d < 2^14, over a's limbs hi down to lo, rem
\* being what is left of the limbs above hi: [q, r], r a number below d
RECURSIVE BinDivRange(_, _, _, _, _)
BinDivRange(a, d, hi, lo, rem) ==
    IF lo = hi
    THEN Only({ WithRemainder(<<cur \div d>>, cur % d) :
                cur \in {rem * BinLimb + a[lo]} })
    ELSE Only({ Only({ WithRemainder(lower.q \o upper.q, lower.r) :
                       lower \in {BinDivRange(a, d, (lo + hi) \div 2, lo, upper.r)} }) :
                upper \in {BinDivRange(a, d, hi, ((lo + hi) \div 2) + 1, rem)} })
BinDivMod(a, d) ==
    IF a = <<>> THEN WithRemainder(<<>>, 0)
    ELSE Only({ WithRemainder(Trim(res.q), res.r) :
                res \in {BinDivRange(a, d, Len(a), 1, 0)} })

\* a * 2^k and a // 2^k
BinShiftLeft(a, k) ==
    IF a = <<>> THEN <<>>
    ELSE [i \in 1..(k \div LimbBits) |-> 0] \o BinMul(a, 2 ^ (k % LimbBits))
BinShiftRight(a, k) ==
    IF Len(a) <= k \div LimbBits THEN <<>>
    ELSE BinDivMod(SubSeq(a, (k \div LimbBits) + 1, Len(a)), 2 ^ (k % LimbBits)).q

\* int(math.log2(m)) for m >= 1
RECURSIVE Log2Floor(_)
Log2Floor(m) == IF m < 2 THEN 0 ELSE 1 + Log2Floor(m \div 2)

\* the number of bits of the magnitude a
bitcount(a) ==
    IF a = <<>> THEN 0 ELSE LimbBits * (Len(a) - 1) + Log2Floor(a[Len(a)]) + 1

\* num / den rounded to prec significant bits, den a number in 1..(2^14 - 1)
\* (mpmath's normalize, rounding to nearest): whole is the quotient's
\* integer part, kept its leading bits, low the bits of whole below them
normalize(num, den, prec) ==
    Only({ Only({ Only({ Only({
        Signed(u.neg, BinShiftLeft(
            IF \/ MagLess(half, low)
               \/ (low = half /\ whole.r # 0)
               \/ (sh = 0 /\ 2 * whole.r > den)
               \/ (/\ kept # <<>> /\ kept[1] % 2 = 1
                   /\ IF sh = 0 THEN 2 * whole.r = den
                      ELSE low = half /\ whole.r = 0)
            THEN BinAdd(kept, <<1>>) ELSE kept, sh)) :
        low \in {BinSub(whole.q, BinShiftLeft(kept, sh))},
        half \in {IF sh = 0 THEN <<>> ELSE BinShiftLeft(<<1>>, sh - 1)} }) :
        kept \in {BinShiftRight(whole.q, sh)} }) :
        sh \in {IF bitcount(whole.q) > prec THEN bitcount(whole.q) - prec ELSE 0} }) :
        u \in {num}, whole \in {BinDivMod(num.mag, den)} })

\* mp.power(2, e) for -FracBits <= e <= 0
mpf_power2(e) == Signed(FALSE, BinShiftLeft(<<1>>, FracBits + e))
mpf(a) == Signed(FALSE, BinShiftLeft(IF a = 0 THEN <<>> ELSE <<a>>, FracBits))
mpf_neg(x) == Signed(~x.neg, x.mag)
\* x + y, not rounded
MpfSum(x, y) ==
    IF x.neg = y.neg THEN Signed(x.neg, BinAdd(x.mag, y.mag))
    ELSE IF MagLess(x.mag, y.mag) THEN Signed(y.neg, BinSub(y.mag, x.mag))
    ELSE Signed(x.neg, BinSub(x.mag, y.mag))
mpf_add(x, y, prec) == Only({ normalize(MpfSum(u, v), 1, prec) : u \in {x}, v \in {y} })
mpf_sub(x, y, prec) == Only({ normalize(MpfSum(u, mpf_neg(v)), 1, prec) : u \in {x}, v \in {y} })
\* x / d and c * x for numbers d and c in 1..(2^14 - 1)
mpf_div(x, d, prec) == normalize(x, d, prec)
mpf_mul_int(c, x, prec) == Only({ normalize(Signed(u.neg, BinMul(u.mag, c)), 1, prec) : u \in {x} })
\* x < y
mpf_lt(x, y) ==
    \E u \in {x}, v \in {y} :
        IF u.neg # v.neg THEN u.neg
        ELSE IF u.neg THEN MagLess(v.mag, u.mag)
        ELSE MagLess(u.mag, v.mag)
\* floor(x) as an mpf; for x < 0 the magnitude is rounded up
mpf_floor(x) ==
    Only({ Only({ IF u.neg /\ BinShiftLeft(whole, FracBits) # u.mag
                  THEN Signed(TRUE, BinShiftLeft(BinAdd(whole, <<1>>), FracBits))
                  ELSE Signed(u.neg, BinShiftLeft(whole, FracBits)) :
                  whole \in {BinShiftRight(u.mag, FracBits)} }) :
           u \in {x} })
\* int(floor(x)) for 0 <= x < 2^14
mpf_floor_int(x) ==
    Only({ IF whole = <<>> THEN 0 ELSE whole[1] : whole \in {BinShiftRight(x.mag, FracBits)} })
\* x % 1: the exact remainder, then rounded
mpf_mod1(x, prec) == Only({ normalize(MpfSum(u, mpf_neg(mpf_floor(u))), 1, prec) : u \in {x} })

(***************************************************************************)
(* bbp.py: the hexadecimal digits of pi by the Bailey-Borwein-Plouffe      *)
(* series.                                                                 *)
(***************************************************************************)
_prec_bits(n) ==
    IF n < 1 THEN 128
    ELSE IF Log2Floor(n + 1) + 128 > 128 THEN Log2Floor(n + 1) + 128 ELSE 128

\* pow(b, e, m)
RECURSIVE pow(_, _, _)
pow(b, e, m) == IF e = 0 THEN 1 % m ELSE (b * pow(b, e - 1, m)) % m

\* one pass of the first loop of _series: s after the term k
SeriesHeadStep(j, n, k, s, prec) ==
    Only({ mpf_sub(added, mpf_floor(added), prec) :
           added \in {mpf_add(s, mpf_div(mpf(pow(16, n - k, 8 * k + j)),
                                         8 * k + j, prec), prec)} })

\* the passes lo..hi of the first loop, the range split in halves
RECURSIVE SeriesHead(_, _, _, _, _, _)
SeriesHead(j, n, lo, hi, s, prec) ==
    IF lo = hi THEN SeriesHeadStep(j, n, lo, s, prec)
    ELSE Only({ SeriesHead(j, n, ((lo + hi) \div 2) + 1, hi, left, prec) :
                left \in {SeriesHead(j, n, lo, (lo + hi) \div 2, s, prec)} })

\* the second loop of _series (while True) holds t and pow16; done once the
\* term has fallen below eps and the loop has been left
SeriesTailState(t, pow16, done) == [t |-> t, pow16 |-> pow16, done |-> done]

\* one pass of the second loop, at k
SeriesTailStep(j, k, st, prec) ==
    IF st.done THEN st
    ELSE Only({ IF mpf_lt(term, mpf_power2(16 - prec))
                THEN SeriesTailState(st.t, st.pow16, TRUE)
                ELSE SeriesTailState(mpf_add(st.t, term, prec),
                                     mpf_div(st.pow16, 16, prec), FALSE) :
                term \in {mpf_div(st.pow16, 8 * k + j, prec)} })

\* the passes lo..hi of the second loop, the range split in halves
RECURSIVE SeriesTailRange(_, _, _, _, _)
SeriesTailRange(j, lo, hi, st, prec) ==
    IF lo = hi THEN SeriesTailStep(j, lo, st, prec)
    ELSE Only({ SeriesTailRange(j, ((lo + hi) \div 2) + 1, hi, left, prec) :
                left \in {SeriesTailRange(j, lo, (lo + hi) \div 2, st, prec)} })

\* the second loop from k on, TailSpan passes at a time until it is left
TailSpan == 64
RECURSIVE SeriesTail(_, _, _, _)
SeriesTail(j, k, st, prec) ==
    Only({ IF after.done THEN after.t ELSE SeriesTail(j, k + TailSpan, after, prec) :
           after \in {SeriesTailRange(j, k, k + TailSpan - 1, st, prec)} })

_series(j, n, prec) ==
    Only({ mpf_mod1(mpf_add(s, t, prec), prec) :
           s \in {SeriesHead(j, n, 0, n, mpf(0), prec)},
           t \in {SeriesTail(j, n + 1,
                             SeriesTailState(mpf(0), mpf_div(mpf(1), 16, prec), FALSE),
                             prec)} })

\* x of pi_hex_digit
BbpX(n, prec) ==
    Only({ mpf_mod1(mpf_sub(mpf_sub(mpf_sub(mpf_mul_int(4, s1, prec),
                                            mpf_mul_int(2, s4, prec), prec),
                                    s5, prec),
                            s6, prec), prec) :
           s1 \in {_series(1, n, prec)}, s4 \in {_series(4, n, prec)},
           s5 \in {_series(5, n, prec)}, s6 \in {_series(6, n, prec)} })

pi_hex_digit(n) == mpf_floor_int(mpf_mul_int(16, BbpX(n, _prec_bits(n)), _prec_bits(n)))

(***************************************************************************)
(* verify.py: the verification of a candidate digit prefix.  A string is   *)
(* a sequence of one-character strings.                                    *)
(***************************************************************************)
MaxSamples == 4         \* the largest sample count asked for

\* next(g): the generator runs its loop up to the next yield
SpigotPass(c) ==
    IF c.pc = "yield" THEN c
    ELSE IF SpigotEmits(c)
    THEN [c EXCEPT !.pc = "yield", !.emitted = Append(@, c.n)]
    ELSE SpigotElse(c)
RECURSIVE SpigotUntilYield(_)
SpigotUntilYield(c) ==
    Only({ IF d.pc = "yield" THEN d ELSE SpigotUntilYield(SpigotPass(d)) : d \in {c} })
SpigotNextValue(c) ==
    SpigotUntilYield(IF c.pc = "yield" THEN SpigotAfterYield(c) ELSE c)
\* the generator after count calls of next
RECURSIVE SpigotTake(_, _)
SpigotTake(c, count) ==
    IF count = 0 THEN c
    ELSE Only({ SpigotTake(d, count - 1) : d \in {SpigotNextValue(c)} })

\* _pi_spigot_prefix without the first next(g): the 3 stays in front
_pi_spigot_prefixKeepsFirst(count) ==
    Only({ JoinStr(g.emitted, 1, count) : g \in {SpigotTake(SpigotInit, count)} })

\* the first value is dropped, the next count values are joined
_pi_spigot_prefix(count) ==
    Only({ JoinStr(g.emitted, 2, count + 1) : g \in {SpigotTake(SpigotInit, count + 1)} })

\* the alphabet of streaming.py in the place of the one of bbp.py
BbpAlphabetLower ==
    <<"0", "1", "2", "3", "4", "5", "6", "7", "8", "9", "a", "b", "c", "d", "e", "f">>

\* bbp.py: pi_hex_digits(start, count) for start >= 0 and count >= 0
BbpAlphabet ==
    <<"0", "1", "2", "3", "4", "5", "6", "7", "8", "9", "A", "B", "C", "D", "E", "F">>
RECURSIVE HexJoin(_, _, _)
HexJoin(start, lo, hi) ==
    IF lo > hi THEN <<>>
    ELSE IF lo = hi THEN <<BbpAlphabet[pi_hex_digit(start + lo) + 1]>>
    ELSE HexJoin(start, lo, (lo + hi) \div 2) \o HexJoin(start, ((lo + hi) \div 2) + 1, hi)
pi_hex_digits(start, count) == HexJoin(start, 0, count - 1)

\* streaming.py: the alphabet of iter_fractional_chunks
StreamAlphabet ==
    <<"0", "1", "2", "3", "4", "5", "6", "7", "8", "9", "a", "b", "c", "d", "e", "f",
      "g", "h", "i", "j", "k", "l", "m", "n", "o", "p", "q", "r", "s", "t", "u", "v",
      "w", "x", "y", "z">>

\* str.upper of one character: the letters a..f of the digit alphabets, and
\* the sharp s, whose upper case is two characters
UpperChar(ch) ==
    CASE ch = "a" -> <<"A">> [] ch = "b" -> <<"B">> [] ch = "c" -> <<"C">>
      [] ch = "d" -> <<"D">> [] ch = "e" -> <<"E">> [] ch = "f" -> <<"F">>
      [] ch = "x" -> <<"X">> [] ch = "ß" -> <<"S", "S">>
      [] OTHER -> <<ch>>
RECURSIVE upper(_)
upper(str) == IF str = <<>> THEN <<>> ELSE UpperChar(Head(str)) \o upper(Tail(str))

Min(a, b) == IF a < b THEN a ELSE b

\* the keys of constants_map() the model draws from, and a name that is no key
PiName == "Pi (π)"
ConstantNames == {PiName, "Euler's e", "Custom"}

\* _mp_prefix: val is the fractional digit expansion of the value mpmath
\* gives for the constant, at least samples digits long; the samples digits
\* iter_fractional_bytes yields are collected whole.  An unknown name
\* raises KeyError at c[constant_name].
_mp_prefix(constant_name, val, samples) ==
    IF constant_name \notin ConstantNames
    THEN [raised |-> "KeyError", text |-> <<>>]
    ELSE [raised |-> "", text |-> [i \in 1..samples |-> StreamAlphabet[val[i] + 1]]]

VerifyResult(ok, tag, expected) ==
    [raised |-> "", ok |-> ok, tag |-> tag, expected |-> expected, computed |-> TRUE]
VerifySkipped ==
    [raised |-> "", ok |-> TRUE, tag |-> "verification skipped", expected |-> <<>>,
     computed |-> FALSE]
VerifyRaised(type) ==
    [raised |-> type, ok |-> FALSE, tag |-> "", expected |-> <<>>, computed |-> TRUE]

\* the three branches after the skip
VerifyCompare(constant_name, base, samples, fractional_digits, val) ==
    IF constant_name = PiName /\ base = 10
    THEN Only({ VerifyResult(expected = SubSeq(fractional_digits, 1, Len(expected)),
                             "pi spigot", expected) :
                expected \in {_pi_spigot_prefix(Min(samples, Len(fractional_digits)))} })
    ELSE IF constant_name = PiName /\ base = 16
    THEN Only({ VerifyResult(
                    expected = upper(SubSeq(fractional_digits, 1,
                                            Min(samples, Len(fractional_digits)))),
                    "pi bbp", expected) :
                expected \in {pi_hex_digits(0, Min(samples, Len(fractional_digits)))} })
    ELSE Only({ IF mp.raised # "" THEN VerifyRaised(mp.raised)
                ELSE VerifyResult(mp.text = SubSeq(fractional_digits, 1, Len(mp.text)),
                                  "mp stability", mp.text) :
                mp \in {_mp_prefix(constant_name, val,
                                   Min(samples, Len(fractional_digits)))} })

\* verify_fractional_digits with the skip only for samples < 0
verify_fractional_digitsSkipsBelowZero(constant_name, base, samples, fractional_digits, val) ==
    IF samples < 0 THEN VerifySkipped
    ELSE VerifyCompare(constant_name, base, samples, fractional_digits, val)

\* verify_fractional_digits with the whole candidate compared in the
\* general branch
verify_fractional_digitsWholeCandidate(constant_name, base, samples, fractional_digits, val) ==
    IF samples <= 0 THEN VerifySkipped
    ELSE IF constant_name = PiName /\ base \in {10, 16}
    THEN VerifyCompare(constant_name, base, samples, fractional_digits, val)
    ELSE Only({ IF mp.raised # "" THEN VerifyRaised(mp.raised)
                ELSE VerifyResult(mp.text = fractional_digits, "mp stability", mp.text) :
                mp \in {_mp_prefix(constant_name, val,
                                   Min(samples, Len(fractional_digits)))} })

\* verify_fractional_digits(constant_name, expr, base, samples,
\* fractional_digits); expr only reaches the value of "Custom", which is val
verify_fractional_digits(constant_name, base, samples, fractional_digits, val) ==
    IF samples <= 0 THEN VerifySkipped
    ELSE VerifyCompare(constant_name, base, samples, fractional_digits, val)

\* The inputs of the model.
VerifyConstants == ConstantNames \cup {"Omega"}
VerifyBases == {10, 16}
\* the digits of a value of the general branch, in base 10 and in base 16
MpValues(base) ==
    IF base = 10 THEN {<<7, 1, 8, 2, 8, 1, 8, 2>>, <<3, 3, 3, 3, 3, 3, 3, 3>>}
    ELSE {<<11, 7, 14, 1, 5, 1, 6, 2>>, <<5, 5, 5, 5, 5, 5, 5, 5>>}
\* the first sixteen fractional digits of pi in base 16, from the test of
\* bbp.py
PiHex == <<2, 4, 3, 15, 6, 10, 8, 8, 8, 5, 10, 3, 0, 8, 13, 3>>
\* the digit texts the candidates are made from: what the package writes
\* for the constant (lower case in base 16)
SourceTexts(constant_name, base) ==
    {[i \in 1..(MaxSamples + 1) |-> StreamAlphabet[ds[i] + 1]] :
        ds \in IF constant_name = PiName
               THEN {IF base = 10 THEN PI_80 ELSE PiHex}
               ELSE MpValues(base)}
\* a prefix, its upper case, a text with one character replaced
VerifyCandidates(constant_name, base) ==
    UNION {
        {SubSeq(text, 1, n) : n \in {0, 1, MaxSamples, MaxSamples + 1}}
        \cup {upper(SubSeq(text, 1, MaxSamples))}
        \cup {[text EXCEPT ![i] = c] : i \in {1, MaxSamples - 1}, c \in {"0", "ß"}}
        : text \in SourceTexts(constant_name, base) }

Verify ==
    /\ calc = NoCalc
    /\ \E constant_name \in VerifyConstants, base \in VerifyBases,
          samples \in -1..MaxSamples :
         \E fractional_digits \in VerifyCandidates(constant_name, base),
            val \in IF constant_name = PiName THEN {<<>>} ELSE MpValues(base) :
            calc' = [op |-> "verify", constant_name |-> constant_name, base |-> base,
                     samples |-> samples, fractional_digits |-> fractional_digits,
                     val |-> val,
                     result |-> verify_fractional_digits(constant_name, base, samples,
                                                         fractional_digits, val)]

NextVerify == Verify /\ UNCHANGED <<containerVars, envelopeVars>>

SpecVerify == Init /\ [][NextVerify]_vars

(***************************************************************************)
(* Claims checked under SpecVerify.                                        *)
(***************************************************************************)
\* the digit a character stands for, in either case; -1 for any other
\* character
DigitValue(ch) ==
    IF \E d \in 1..16 : ch \in {StreamAlphabet[d], BbpAlphabet[d]}
    THEN (CHOOSE d \in 1..16 : ch \in {StreamAlphabet[d], BbpAlphabet[d]}) - 1
    ELSE -1

\* the fractional digits of pi in base 10 and in base 16, from the tests'
\* reference literals
TruePiDigits(base) == IF base = 10 THEN PI_80 ELSE PiHex

\* the first n characters of the candidate are the first n digits of pi
TruePiPrefix(str, base, n) ==
    \A i \in 1..n : DigitValue(str[i]) = TruePiDigits(base)[i]

\* C15 (verification outcome for pi): for pi in base 10 and in base 16 and
\* a sample count of at least 1, the call returns and raises nothing, the
\* tag is 'pi spigot' in base 10 and 'pi bbp' in base 16, the candidate
\* that is the true digit prefix passes, and a candidate that differs from
\* the true digits within its first min(samples, len(candidate)) positions
\* fails.
C15_PiVerification ==
    (/\ calc.op = "verify" /\ calc.constant_name = PiName
     /\ calc.base \in {10, 16} /\ calc.samples >= 1) =>
        /\ calc.result.raised = ""
        /\ calc.result.tag = IF calc.base = 10 THEN "pi spigot" ELSE "pi bbp"
        /\ TruePiPrefix(calc.fractional_digits, calc.base, Len(calc.fractional_digits))
              => calc.result.ok
        /\ ~TruePiPrefix(calc.fractional_digits, calc.base,
                         Min(calc.samples, Len(calc.fractional_digits)))
              => ~calc.result.ok

\* the digits the package writes for pi in base 16, lower case, verified
\* over four samples
C15_Witness ==
    /\ calc.op = "verify" /\ calc.constant_name = PiName /\ calc.base = 16
    /\ calc.samples = 4 /\ calc.fractional_digits = <<"2", "4", "3", "f", "6">>
    /\ calc.result = VerifyResult(TRUE, "pi bbp", <<"2", "4", "3", "F">>)

\* a corrupted decimal candidate: the third digit replaced
C15_WitnessCorrupted ==
    /\ calc.op = "verify" /\ calc.constant_name = PiName /\ calc.base = 10
    /\ calc.samples = 4 /\ calc.fractional_digits = <<"1", "4", "0", "5", "9">>
    /\ calc.result = VerifyResult(FALSE, "pi spigot", <<"1", "4", "1", "5">>)

\* m = min(sample_count, len(candidate), len(reference))
Overlap ==
    Min(calc.samples, Min(Len(calc.fractional_digits), Len(calc.result.expected)))

\* C16 as stated: for a supported constant and a sample count of at least
\* 1 the result is candidate[0:m] == reference[0:m].
C16_Original ==
    (/\ calc.op = "verify" /\ calc.constant_name \in ConstantNames
     /\ calc.samples >= 1) =>
        /\ calc.result.raised = ""
        /\ calc.result.ok = (SubSeq(calc.fractional_digits, 1, Overlap)
                             = SubSeq(calc.result.expected, 1, Overlap))

\* C16 (verification overlap): for a supported constant and a sample count
\* of at least 1 the result is candidate[0:m] == reference[0:m], the
\* candidate's m characters put in upper case first for pi in base 16,
\* whose reference is upper case; an overlap of length 0 passes.
C16_Overlap ==
    (/\ calc.op = "verify" /\ calc.constant_name \in ConstantNames
     /\ calc.samples >= 1) =>
        /\ calc.result.raised = ""
        /\ calc.result.ok =
              ((IF calc.constant_name = PiName /\ calc.base = 16
                THEN upper(SubSeq(calc.fractional_digits, 1, Overlap))
                ELSE SubSeq(calc.fractional_digits, 1, Overlap))
               = SubSeq(calc.result.expected, 1, Overlap))
        /\ Overlap = 0 => calc.result.ok

\* pi in base 16, the candidate in lower case: it passes, and its first
\* four characters are not the reference's
C16_Witness ==
    /\ calc.op = "verify" /\ calc.constant_name = PiName /\ calc.base = 16
    /\ calc.samples = 4 /\ calc.fractional_digits = <<"2", "4", "3", "f">>
    /\ calc.result.expected = <<"2", "4", "3", "F">>
    /\ calc.result.ok

\* the general branch in base 16, the candidate in upper case: it fails
C16_WitnessUpper ==
    /\ calc.op = "verify" /\ calc.constant_name = "Euler's e" /\ calc.base = 16
    /\ calc.samples = 4 /\ calc.fractional_digits = <<"B", "7", "E", "1">>
    /\ calc.result = VerifyResult(FALSE, "mp stability", <<"b", "7", "e", "1">>)

\* an empty candidate
C16_WitnessEmpty ==
    /\ calc.op = "verify" /\ calc.constant_name = "Euler's e"
    /\ calc.samples = 2 /\ calc.fractional_digits = <<>>
    /\ calc.result = VerifyResult(TRUE, "mp stability", <<>>)

\* C17 (verification skip): for a sample count of 0 or less, whatever the
\* constant name, the base and the candidate, the call returns passed =
\* true with the tag 'verification skipped', computes no reference and
\* raises nothing.
C17_Skip ==
    (calc.op = "verify" /\ calc.samples <= 0) => calc.result = VerifySkipped

\* a name that is no constant, a candidate that holds no digit, no sample
C17_Witness ==
    /\ calc.op = "verify" /\ calc.constant_name = "Omega" /\ calc.samples = 0
    /\ \E i \in 1..Len(calc.fractional_digits) : calc.fractional_digits[i] = "ß"
    /\ calc.result = VerifySkipped

\* the same name with one sample: the lookup raises
C17_WitnessRaises ==
    /\ calc.op = "verify" /\ calc.constant_name = "Omega" /\ calc.samples = 1
    /\ calc.result = VerifyRaised("KeyError")

(***************************************************************************)
(* chudnovsky.py: pi by binary splitting of the Chudnovsky series.         *)
(***************************************************************************)
MaxTerms == 8           \* the largest term count that is split in chunks

_A == IntOf(13591409)
_B == IntOf(545140134)
_C == IntOf(640320)
_C3_OVER_24 == IntFloorDiv(IntMul(IntMul(_C, _C), _C), IntOf(24))

_BSTuple(p, q, t) == [p |-> p, q |-> q, t |-> t]

\* _combine with the two sides in the other order
_combineSwapped(acc, nxt) ==
    Only({ _BSTuple(IntMul(l.p, x.p), IntMul(l.q, x.q),
                    IntAdd(IntMul(x.t, l.q), IntMul(x.p, l.t))) :
           l \in {acc}, x \in {nxt} })

_combine(acc, nxt) ==
    Only({ _BSTuple(IntMul(l.p, x.p), IntMul(l.q, x.q),
                    IntAdd(IntMul(l.t, x.q), IntMul(l.p, x.t))) :
           l \in {acc}, x \in {nxt} })

\* the triple of the term k >= 1
BsTerm(k) ==
    Only({ Only({ _BSTuple(p, IntMul(IntOf(k * k * k), _C3_OVER_24),
                           IF k % 2 = 1 THEN IntNeg(t) ELSE t) :
                  t \in {IntMul(p, IntAdd(_A, IntMul(_B, IntOf(k))))} }) :
           p \in {IntMul(IntMul(IntOf(6 * k - 5), IntOf(2 * k - 1)), IntOf(6 * k - 1))} })

\* _bs(a, b) for a < b
RECURSIVE _bs(_, _)
_bs(a, b) ==
    IF b - a = 1
    THEN IF a = 0 THEN _BSTuple(IntOf(1), IntOf(1), _A) ELSE BsTerm(a)
    ELSE Only({ _BSTuple(IntMul(left.p, right.p), IntMul(left.q, right.q),
                         IntAdd(IntMul(left.t, right.q), IntMul(left.p, right.t))) :
                left \in {_bs(a, (a + b) \div 2)},
                right \in {_bs((a + b) \div 2, b)} })

\* bounds in steps of one size, terms // chunk_count
ChunkBoundsEvenSteps(terms, chunk_count) ==
    [i \in 1..(chunk_count + 1) |-> (i - 1) * (terms \div chunk_count)]

\* bounds of the chunks: bounds[i + 1] is the code's bounds[i]
ChunkBounds(terms, chunk_count) ==
    [i \in 1..(chunk_count + 1) |-> (terms * (i - 1)) \div chunk_count]

\* the fold of the chunks from the chunk at index done on (index 0 first)
RECURSIVE ChunksFold(_, _, _, _)
ChunksFold(bounds, chunk_count, done, acc) ==
    IF done = chunk_count THEN acc
    ELSE Only({ ChunksFold(bounds, chunk_count, done + 1, next) :
                next \in {_combine(acc, _bs(bounds[done + 1], bounds[done + 2]))} })

(***************************************************************************)
(* decimal.Decimal under a context of prec digits, rounding half to even:  *)
(* a value is coef * 10^exp, coef an integer.                              *)
(***************************************************************************)
Decimal(coef, exp) == [coef |-> coef, exp |-> exp]

\* 10^k as a magnitude
Pow10(k) == [i \in 1..(k \div 4) |-> 0] \o <<10 ^ (k % 4)>>

\* len(str(m)) for a magnitude m
DecLen(m) ==
    IF m = <<>> THEN 1
    ELSE 4 * (Len(m) - 1)
         + (IF m[Len(m)] >= 1000 THEN 4 ELSE IF m[Len(m)] >= 100 THEN 3
            ELSE IF m[Len(m)] >= 10 THEN 2 ELSE 1)

\* n / d rounded to the nearest integer, ties to even
RoundHalfEven(n, d) ==
    Only({ Only({ Only({ IF \/ MagLess(v, twice)
                            \/ (twice = v /\ dm.q # <<>> /\ dm.q[1] % 2 = 1)
                         THEN MagAdd(dm.q, <<1>>)
                         ELSE dm.q :
                         twice \in {MagAdd(dm.r, dm.r)} }) :
                  dm \in {MagDivMod(u, v)} }) :
           u \in {n}, v \in {d} })

\* Decimal._fix: the coefficient cut to prec digits
DecFix(x, prec) ==
    Only({ IF DecLen(u.coef.mag) <= prec THEN u
           ELSE Only({ IF DecLen(rounded) > prec
                       THEN Decimal(Signed(u.coef.neg, MagDivMod(rounded, <<10>>).q),
                                    u.exp + DecLen(u.coef.mag) - prec + 1)
                       ELSE Decimal(Signed(u.coef.neg, rounded),
                                    u.exp + DecLen(u.coef.mag) - prec) :
                       rounded \in {RoundHalfEven(u.coef.mag,
                                                  Pow10(DecLen(u.coef.mag) - prec))} }) :
           u \in {x} })

DecMul(x, y, prec) ==
    Only({ DecFix(Decimal(IntMul(u.coef, v.coef), u.exp + v.exp), prec) :
           u \in {x}, v \in {y} })

\* the number of zero digits at the end of m, at most most
TrailingZeros(m, most) ==
    CHOOSE k \in 0..most :
        /\ MagDivMod(m, Pow10(k)).r = <<>>
        /\ k < most => MagDivMod(m, Pow10(k + 1)).r # <<>>

\* x / y for y # 0: the quotient to prec + 1 digits, its last digit moved
\* off 0 and 5 when the division leaves a remainder, then cut to prec
DecDiv(x, y, prec) ==
    Only({ Only({ Only({
        IF dm.r # <<>>
        THEN DecFix(Decimal(Signed(u.coef.neg # v.coef.neg,
                                   IF LimbAt(dm.q, 1) % 5 = 0
                                   THEN MagAdd(dm.q, <<1>>) ELSE dm.q),
                            u.exp - v.exp - shift), prec)
        ELSE Only({ DecFix(Decimal(Signed(u.coef.neg # v.coef.neg,
                                          MagDivMod(dm.q, Pow10(z)).q),
                                   u.exp - v.exp - shift + z), prec) :
                    z \in {IF dm.q = <<>> \/ shift <= 0 THEN 0
                           ELSE TrailingZeros(dm.q, shift)} }) :
        dm \in {IF shift >= 0
                THEN MagDivMod(MagMul(u.coef.mag, Pow10(shift)), v.coef.mag)
                ELSE MagDivMod(u.coef.mag, MagMul(v.coef.mag, Pow10(0 - shift)))} }) :
        shift \in {DecLen(v.coef.mag) - DecLen(u.coef.mag) + prec + 1} }) :
        u \in {x}, v \in {y} })

\* floor(sqrt(c)) by Newton's iteration from n >= sqrt(c)
RECURSIVE SqrtNewton(_, _)
SqrtNewton(c, n) ==
    Only({ IF ~MagLess(quo, n) THEN n
           ELSE SqrtNewton(c, MagDivMod(MagAdd(n, quo), <<2>>).q) :
           quo \in {MagDivMod(c, n).q} })

\* Decimal.sqrt of a positive integer x (exponent 0): the root of x scaled
\* by an even power of ten to prec + 1 digits, its last digit moved off 0
\* and 5 when it is not exact, then cut to prec
DecSqrt(x, prec) ==
    Only({ Only({ Only({
        DecFix(Decimal(Signed(FALSE,
                              IF (c.r # <<>> \/ MagMul(n, n) # c.q) /\ LimbAt(n, 1) % 5 = 0
                              THEN MagAdd(n, <<1>>) ELSE n),
                       0 - shift), prec) :
        n \in {SqrtNewton(c.q, Pow10(prec + 1))} }) :
        c \in {IF shift >= 0
               THEN WithRemainder(MagMul(x.coef.mag, Pow10(2 * shift)), <<>>)
               ELSE MagDivMod(x.coef.mag, Pow10(2 * (0 - shift)))} }) :
        shift \in {prec + 1 - ((DecLen(x.coef.mag) + 1) \div 2)} })

\* format(x, "f") for x >= 0: the digits before and after the point
DecFormat(x) ==
    Only({ IF x.exp >= 0 THEN [head |-> ds \o [i \in 1..x.exp |-> 0], tail |-> <<>>]
           ELSE IF Len(ds) > 0 - x.exp
           THEN [head |-> SubSeq(ds, 1, Len(ds) + x.exp),
                 tail |-> SubSeq(ds, Len(ds) + x.exp + 1, Len(ds))]
           ELSE [head |-> <<0>>,
                 tail |-> [i \in 1..((0 - x.exp) - Len(ds)) |-> 0] \o ds] :
           ds \in {IntDigits(x.coef)} })

\* int(digits_after_point / 14.181647462725477) + 2
ChudnovskyTerms(digits_after_point) ==
    Small(IntFloorDiv(IntMul(IntOf(digits_after_point), IntMul(IntOf(1000000000), IntOf(1000000))),
                      IntAdd(IntMul(IntOf(14181647), IntOf(1000000000)), IntOf(462725477)))) + 2

\* the term count from which the chunks are computed apart
ParallelTerms == 2000

\* getcontext().prec without the twenty guard digits
ChudnovskyPrecisionNoGuard(digits_after_point) == digits_after_point + 1

\* getcontext().prec
ChudnovskyPrecision(digits_after_point) == digits_after_point + 20

ChudnovskyOk(text) == [raised |-> "", msg |-> "", text |-> text]
ChudnovskyRaised(msg) == [raised |-> "ValueError", msg |-> msg, text |-> <<>>]

\* the value and the text, given the triple
ChudnovskyText(bs, digits_after_point, prec) ==
    Only({ [i \in 1..Len(s.head) |-> DigitChars[s.head[i] + 1]] \o <<".">>
           \o [i \in 1..digits_after_point |->
                  IF i <= Len(s.tail) THEN DigitChars[s.tail[i] + 1] ELSE "0"] :
           s \in {DecFormat(DecDiv(DecMul(DecMul(Decimal(IntOf(426880), 0),
                                                 DecSqrt(Decimal(IntOf(10005), 0), prec),
                                                 prec),
                                          Decimal(bs.q, 0), prec),
                                   Decimal(bs.t, 0), prec))} })

chudnovsky_pi_decimal_string(digits_after_point, workers) ==
    IF digits_after_point < 0 THEN ChudnovskyRaised("digits_after_point must be >= 0")
    ELSE IF workers < 1 THEN ChudnovskyRaised("workers must be >= 1")
    ELSE Only({ ChudnovskyOk(ChudnovskyText(
                    IF workers = 1 \/ terms < ParallelTerms THEN _bs(0, terms)
                    ELSE ChunksFold(ChunkBounds(terms, Min(workers, terms)),
                                    Min(workers, terms), 0,
                                    _BSTuple(IntOf(1), IntOf(1), IntOf(0))),
                    digits_after_point, ChudnovskyPrecision(digits_after_point))) :
                terms \in {ChudnovskyTerms(digits_after_point)} })

\* The inputs of the model.
ChudnovskyDigits == {-1, 0, 1, 15, 80}
ChudnovskyWorkers == {0, 1, 3}

\* l.63-70: the term range is cut in chunk_count = min(workers, terms)
\* chunks, the fold starts from (1, 1, 0)
BsPartition ==
    /\ calc = NoCalc
    /\ \E terms \in 1..MaxTerms, workers \in 1..(MaxTerms + 1) :
         \E chunk_count \in {Min(workers, terms)} :
            calc' = [op |-> "bs", terms |-> terms, workers |-> workers,
                     chunk_count |-> chunk_count,
                     bounds |-> ChunkBounds(terms, chunk_count), done |-> 0,
                     bs |-> _BSTuple(IntOf(1), IntOf(1), IntOf(0))]

\* l.71-72: one pass of the fold, over the next chunk's triple
BsCombine ==
    /\ calc.op = "bs" /\ calc.done < calc.chunk_count
    /\ calc' = [calc EXCEPT !.done = @ + 1,
                            !.bs = _combine(calc.bs, _bs(calc.bounds[calc.done + 1],
                                                         calc.bounds[calc.done + 2]))]

Chudnovsky ==
    /\ calc = NoCalc
    /\ \E digits_after_point \in ChudnovskyDigits, workers \in ChudnovskyWorkers :
          calc' = [op |-> "chudnovsky", digits_after_point |-> digits_after_point,
                   workers |-> workers,
                   result |-> chudnovsky_pi_decimal_string(digits_after_point, workers)]

NextChudnovsky ==
    \/ BsPartition /\ UNCHANGED <<containerVars, envelopeVars>>
    \/ BsCombine /\ UNCHANGED <<containerVars, envelopeVars>>
    \/ Chudnovsky /\ UNCHANGED <<containerVars, envelopeVars>>

SpecChudnovsky == Init /\ [][NextChudnovsky]_vars

(***************************************************************************)
(* Claims checked under SpecChudnovsky.                                    *)
(***************************************************************************)
\* C19 (worker independence of binary splitting): for a term count T >= 1
\* and a chunk count c in 1..T the fold of the chunks' triples with
\* _combine, from (1, 1, 0) and in increasing range order, is the triple
\* _bs(0, T); and the string returned for a worker count of at least 1 is
\* the string returned for one worker.
C19_WorkerIndependence ==
    /\ (calc.op = "bs" /\ calc.done = calc.chunk_count)
          => calc.bs = _bs(0, calc.terms)
    /\ (calc.op = "chudnovsky" /\ calc.workers >= 1)
          => calc.result = chudnovsky_pi_decimal_string(calc.digits_after_point, 1)

\* seven terms in three chunks [0, 2), [2, 4), [4, 7), folded
C19_Witness ==
    /\ calc.op = "bs" /\ calc.terms = 7 /\ calc.chunk_count = 3
    /\ calc.bounds = <<0, 2, 4, 7>> /\ calc.done = 3
    /\ calc.bs = _bs(0, 7)

\* C20 (Chudnovsky output): for D >= 0 and at least one worker the result
\* is "3", a point and the first D fractional digits of pi, cut and not
\* rounded; for D = 80 it is the reference literal; for D < 0 or a worker
\* count below 1 the call raises ValueError.
C20_ChudnovskyOutput ==
    calc.op = "chudnovsky" =>
        IF calc.digits_after_point < 0 \/ calc.workers < 1
        THEN calc.result.raised = "ValueError" /\ calc.result.text = <<>>
        ELSE /\ calc.result.raised = ""
             /\ calc.result.text = PiText(calc.digits_after_point + 1)
             /\ Len(calc.result.text) = calc.digits_after_point + 2

\* eighty digits: the literal ends in 20899, the digits after it are 8628
C20_Witness ==
    /\ calc.op = "chudnovsky" /\ calc.digits_after_point = 80 /\ calc.workers = 1
    /\ calc.result = ChudnovskyOk(PiText(81))
    /\ SubSeq(calc.result.text, 78, 82) = <<"2", "0", "8", "9", "9">>

\* a negative digit count
C20_WitnessRaises ==
    /\ calc.op = "chudnovsky" /\ calc.digits_after_point = -1 /\ calc.workers = 1
    /\ calc.result = ChudnovskyRaised("digits_after_point must be >= 0")

\* the size of the sub-range i of a call's partition
ChunkSize(i) == calc.bounds[i + 1] - calc.bounds[i]

\* C25 (range partition): for T >= 1 terms and at least one worker the
\* partition has min(workers, T) sub-ranges [bounds[i], bounds[i+1]) with
\* bounds[0] = 0 and the last bound T, the bounds strictly increasing, every
\* term of [0, T) in exactly one sub-range, and sizes that differ by at
\* most 1.
C25_RangePartition ==
    calc.op = "bs" =>
        /\ calc.chunk_count = Min(calc.workers, calc.terms)
        /\ Len(calc.bounds) = calc.chunk_count + 1
        /\ calc.bounds[1] = 0
        /\ calc.bounds[calc.chunk_count + 1] = calc.terms
        /\ \A i \in 1..calc.chunk_count : calc.bounds[i] < calc.bounds[i + 1]
        /\ \A k \in 0..(calc.terms - 1) :
              Cardinality({i \in 1..calc.chunk_count :
                              calc.bounds[i] <= k /\ k < calc.bounds[i + 1]}) = 1
        /\ \A i, j \in 1..calc.chunk_count :
              ChunkSize(i) - ChunkSize(j) \in {0 - 1, 0, 1}

\* seven terms and three workers: sizes 2, 2 and 3
C25_Witness ==
    /\ calc.op = "bs" /\ calc.terms = 7 /\ calc.workers = 3
    /\ calc.bounds = <<0, 2, 4, 7>>

\* more workers than terms: one term per sub-range
C25_WitnessManyWorkers ==
    /\ calc.op = "bs" /\ calc.terms = 3 /\ calc.workers = 5
    /\ calc.chunk_count = 3 /\ calc.bounds = <<0, 1, 2, 3>>

(***************************************************************************)
(* bbp.py as called from outside: pi_hex_digit(n) and pi_hex_digits(start, *)
(* count) with their argument checks.  The join of pi_hex_digits asks for  *)
(* one digit per step.                                                     *)
(***************************************************************************)
MaxStart == 5           \* the largest start position asked of pi_hex_digits
MaxCount == 4           \* the largest count asked with a start above 0

BbpOk(value) == [raised |-> "", msg |-> "", value |-> value]
BbpRaised(msg) == [raised |-> "ValueError", msg |-> msg, value |-> -1]

\* the positions of the reference literal
BbpPositions == 0..(Len(PiHex) - 1)

PiHexDigit ==
    /\ calc = NoCalc
    /\ \E n \in {-2, -1} \cup BbpPositions :
          calc' = [op |-> "hexdigit", n |-> n,
                   result |-> IF n < 0 THEN BbpRaised("n must be >= 0")
                              ELSE BbpOk(pi_hex_digit(n))]

\* the call and its two checks
PiHexDigits ==
    /\ calc = NoCalc
    /\ \E start \in -1..MaxStart, count \in (-1..MaxCount) \cup {Len(PiHex)} :
          /\ count = Len(PiHex) => start = 0
          /\ calc' = [op |-> "hexdigits", start |-> start, count |-> count,
                      raised |-> IF start < 0 \/ count < 0 THEN "ValueError" ELSE "",
                      msg |-> IF start < 0 THEN "start must be >= 0"
                              ELSE IF count < 0 THEN "count must be >= 0" ELSE "",
                      out |-> <<>>]

\* one element of the join: alphabet[pi_hex_digit(start + i)]
PiHexDigitsJoin ==
    /\ calc.op = "hexdigits" /\ calc.raised = ""
    /\ Len(calc.out) < calc.count
    /\ calc' = [calc EXCEPT !.out = Append(@, BbpAlphabet[pi_hex_digit(calc.start + Len(calc.out)) + 1])]

NextBbp ==
    \/ PiHexDigit /\ UNCHANGED <<containerVars, envelopeVars>>
    \/ PiHexDigits /\ UNCHANGED <<containerVars, envelopeVars>>
    \/ PiHexDigitsJoin /\ UNCHANGED <<containerVars, envelopeVars>>

SpecBbp == Init /\ [][NextBbp]_vars

(***************************************************************************)
(* Claims checked under SpecBbp.                                           *)
(***************************************************************************)
\* the reference text of the test of bbp.py
PiHexText ==
    <<"2", "4", "3", "F", "6", "A", "8", "8", "8", "5", "A", "3", "0", "8", "D", "3">>

\* C21 (BBP digit extraction): pi_hex_digit(n) is the hexadecimal digit of
\* pi at the fractional position n >= 0; pi_hex_digits(start, count) is the
\* upper-case text of the digits at start .. start + count - 1, so
\* pi_hex_digits(0, 16) is 243F6A8885A308D3; a negative position, start or
\* count raises ValueError.
C21_BbpDigits ==
    /\ calc.op = "hexdigit" =>
          IF calc.n < 0 THEN calc.result = BbpRaised("n must be >= 0")
          ELSE /\ calc.result = BbpOk(PiHex[calc.n + 1])
               /\ BbpAlphabet[calc.result.value + 1] = PiHexText[calc.n + 1]
    /\ calc.op = "hexdigits" =>
          IF calc.start < 0 \/ calc.count < 0
          THEN calc.raised = "ValueError" /\ calc.out = <<>>
          ELSE /\ calc.raised = ""
               /\ Len(calc.out) <= calc.count
               /\ calc.out = SubSeq(PiHexText, calc.start + 1, calc.start + Len(calc.out))
               /\ (Len(calc.out) = calc.count /\ calc.count <= MaxCount)
                     => calc.out = pi_hex_digits(calc.start, calc.count)

\* the sixteen digits from position 0
C21_Witness ==
    /\ calc.op = "hexdigits" /\ calc.start = 0 /\ calc.count = 16
    /\ calc.out = PiHexText

\* a negative count
C21_WitnessRaises ==
    /\ calc.op = "hexdigits" /\ calc.start = 0 /\ calc.count = -1
    /\ calc.raised = "ValueError" /\ calc.msg = "count must be >= 0"

(***************************************************************************)
(* The precision planner and the digit routines: compute_precision and     *)
(* integer_to_base of constants.py, iter_fractional_digits and             *)
(* iter_fractional_chunks of streaming.py.  None of them checks its        *)
(* arguments; what a call does with a negative count or a base outside     *)
(* 2..36 is what the arithmetic and the indexing of its body do.           *)
(***************************************************************************)
MaxPlanDigits == 4      \* the largest digit count asked of compute_precision
MaxValue == 40          \* integer_to_base is asked for -MaxValue..MaxValue
MaxPasses == 8          \* passes of integer_to_base's loop that are followed

\* how a call stands: still running, returned (a generator: exhausted), or
\* ended by an exception of the type raised
Returned(value) == [pc |-> "returned", raised |-> "", value |-> value]
RaisedError(type) == [pc |-> "raised", raised |-> type, value |-> <<>>]
Running == [pc |-> "running", raised |-> "", value |-> <<>>]

\* the bases asked for: all of 2..36, and some outside
Bases == (0 - 2)..38
PlanBases == {0 - 1, 0, 1, 2, 7, 10, 16, 36, 37}
PlanGuards == {30, 60}

RECURSIVE IntPow(_, _)
IntPow(b, e) == IF e = 0 THEN 1 ELSE b * IntPow(b, e - 1)
\* the least m >= from with base^digits <= 10^m
RECURSIVE LeastPow10(_, _)
LeastPow10(power, from) ==
    IF power <= IntPow(10, from) THEN from ELSE LeastPow10(power, from + 1)
\* int(math.ceil(digits * math.log10(base))) for base >= 1: the logarithm of
\* base^digits rounded up, and for digits < 0 that of base^-digits rounded
\* down and negated
CeilLog10(digits, base) ==
    IF digits >= 0 THEN LeastPow10(IntPow(base, digits), 0)
    ELSE LET power == IntPow(base, 0 - digits)
             m == LeastPow10(power, 0)
         IN  IF IntPow(10, m) = power THEN 0 - m ELSE 0 - (m - 1)

\* math.log10 raises ValueError for base <= 0
compute_precision(digits, base, guard) ==
    IF base <= 0 THEN RaisedError("ValueError")
    ELSE Returned(CeilLog10(digits, base) + guard)

ComputePrecision ==
    /\ calc = NoCalc
    /\ \E digits \in (0 - 2)..MaxPlanDigits, base \in PlanBases, guard \in PlanGuards :
          calc' = [op |-> "precision", digits |-> digits, base |-> base, guard |-> guard,
                   result |-> compute_precision(digits, base, guard)]

\* divmod(m, base) for base # 0, the quotient rounded toward minus infinity
DivMod(m, base) ==
    IF base > 0 THEN <<m \div base, m % base>>
    ELSE <<(0 - m) \div (0 - base), 0 - ((0 - m) % (0 - base))>>

\* alphabet[d]: an index below 0 counts from the end
AlphabetAt(d) ==
    IF d >= Len(StreamAlphabet) \/ d < 0 - Len(StreamAlphabet) THEN RaisedError("IndexError")
    ELSE Returned(StreamAlphabet[(IF d < 0 THEN d + Len(StreamAlphabet) ELSE d) + 1])

NotReversed(s) == s
\* reversed(s)
Reversed(s) == [i \in 1..Len(s) |-> s[Len(s) + 1 - i]]

\* integer_to_base(n, base) up to its loop
IntegerToBase ==
    /\ calc = NoCalc
    /\ \E n \in (0 - MaxValue)..MaxValue, base \in Bases :
          calc' = [op |-> "integer_to_base", n |-> n, base |-> base,
                   m |-> IF n < 0 THEN 0 - n ELSE n, s |-> <<>>,
                   result |-> IF base = 10 THEN Returned(Str(n))
                              ELSE IF n = 0 THEN Returned(<<"0">>)
                              ELSE Running]

\* one pass of `while m`
IntegerToBaseStep ==
    /\ calc.op = "integer_to_base" /\ calc.result.pc = "running"
    /\ calc.m # 0
    /\ Len(calc.s) < MaxPasses
    /\ calc' =
          IF calc.base = 0 THEN [calc EXCEPT !.result = RaisedError("ZeroDivisionError")]
          ELSE LET qr == DivMod(calc.m, calc.base)
                   ch == AlphabetAt(qr[2])
               IN  IF ch.raised # "" THEN [calc EXCEPT !.m = qr[1], !.result = ch]
                   ELSE [calc EXCEPT !.m = qr[1], !.s = Append(@, ch.value)]

\* the end of the loop: the sign, and the characters reversed
IntegerToBaseReturn ==
    /\ calc.op = "integer_to_base" /\ calc.result.pc = "running"
    /\ calc.m = 0
    /\ calc' = [calc EXCEPT !.result =
                   Returned(Reversed(IF calc.n < 0 THEN Append(calc.s, "-") ELSE calc.s))]

\* mp.prec, the working precision in bits the caller has set
StreamPrec == 53
MaxStreamDigits == 4    \* the largest digit count asked of the digit stream
MaxChunkSize == 3       \* the largest chunk_size asked of iter_fractional_chunks

\* the values whose digits are asked for: 1/3, 22/7, 5/8, 0, 1 - 2^-20,
\* -1/3 and -2^-60, each an mpf of StreamPrec bits
StreamValues ==
    <<mpf_div(mpf(1), 3, StreamPrec), mpf_div(mpf(22), 7, StreamPrec),
      mpf_div(mpf(5), 8, StreamPrec), mpf(0),
      mpf_sub(mpf(1), mpf_power2(0 - 20), StreamPrec),
      mpf_neg(mpf_div(mpf(1), 3, StreamPrec)), mpf_neg(mpf_power2(0 - 60))>>
StreamBases == {1, 2, 3, 10, 16, 36, 37}

\* f = x - mp.floor(x)
FractionalPart(x) == mpf_sub(x, mpf_floor(x), StreamPrec)
\* f *= base; d = int(mp.floor(f)); f -= d: the digit and the remainder
DigitStep(f, base) ==
    Only({ Only({ [d |-> d, f |-> mpf_sub(scaled, mpf(d), StreamPrec)] :
                  d \in {mpf_floor_int(scaled)} }) :
           scaled \in {mpf_mul_int(base, f, StreamPrec)} })

\* iter_fractional_chunks(x, digits, base, chunk_size) before its first
\* chunk; ds is what its iter_fractional_digits has yielded
IterFractionalChunks ==
    /\ calc = NoCalc
    /\ \E v \in 1..Len(StreamValues), digits \in (0 - 1)..MaxStreamDigits,
          base \in StreamBases, chunk_size \in 1..MaxChunkSize :
          calc' = [op |-> "chunks", x |-> v, digits |-> digits, base |-> base,
                   chunk_size |-> chunk_size, f |-> FractionalPart(StreamValues[v]),
                   ds |-> <<>>, buf |-> <<>>, chunks |-> <<>>, result |-> Running]

\* the buffer is given out when it has chunk_size characters
ChunkFull(buf, chunk_size) == Len(buf) >= chunk_size

\* one pass of the loop of iter_fractional_chunks: the next digit of
\* iter_fractional_digits, its character, and the chunk when it is full
IterFractionalChunksStep ==
    /\ calc.op = "chunks" /\ calc.result.pc = "running"
    /\ Len(calc.ds) < calc.digits
    /\ calc' =
          Only({ Only({
              IF ch.raised # ""
              THEN [calc EXCEPT !.f = st.f, !.ds = Append(@, st.d), !.result = ch]
              ELSE IF ChunkFull(Append(calc.buf, ch.value), calc.chunk_size)
              THEN [calc EXCEPT !.f = st.f, !.ds = Append(@, st.d), !.buf = <<>>,
                                !.chunks = Append(@, Append(calc.buf, ch.value))]
              ELSE [calc EXCEPT !.f = st.f, !.ds = Append(@, st.d),
                                !.buf = Append(@, ch.value)] :
              ch \in {AlphabetAt(st.d)} }) :
              st \in {DigitStep(calc.f, calc.base)} })

\* the digits are exhausted: what is left in the buffer is the last chunk
IterFractionalChunksEnd ==
    /\ calc.op = "chunks" /\ calc.result.pc = "running"
    /\ Len(calc.ds) >= calc.digits
    /\ calc' = [calc EXCEPT !.buf = <<>>,
                            !.chunks = IF calc.buf # <<>> THEN Append(@, calc.buf) ELSE @,
                            !.result = Returned("exhausted")]

NextDigits ==
    \/ ComputePrecision /\ UNCHANGED <<containerVars, envelopeVars>>
    \/ IntegerToBase /\ UNCHANGED <<containerVars, envelopeVars>>
    \/ IntegerToBaseStep /\ UNCHANGED <<containerVars, envelopeVars>>
    \/ IntegerToBaseReturn /\ UNCHANGED <<containerVars, envelopeVars>>
    \/ IterFractionalChunks /\ UNCHANGED <<containerVars, envelopeVars>>
    \/ IterFractionalChunksStep /\ UNCHANGED <<containerVars, envelopeVars>>
    \/ IterFractionalChunksEnd /\ UNCHANGED <<containerVars, envelopeVars>>

SpecDigits == Init /\ [][NextDigits]_vars

(***************************************************************************)
(* Claims checked under SpecDigits.                                        *)
(***************************************************************************)
\* C22 (precision planner rejects negative counts): compute_precision
\* fails with an invalid-argument error for every digit_count < 0; for
\* digit_count >= 0 and a base in 2..36 it returns
\* ceil(digit_count * log10(base)) + guard, the least m with
\* base^digit_count <= 10^m, plus guard.
C22_RejectsNegative ==
    calc.op = "precision" =>
        IF calc.digits < 0 THEN calc.result.pc = "raised" /\ calc.result.raised = "ValueError"
        ELSE calc.base \in 2..36 =>
                /\ calc.result.pc = "returned"
                /\ \E m \in 0..8 :
                      /\ calc.result.value = m + calc.guard
                      /\ IntPow(calc.base, calc.digits) <= IntPow(10, m)
                      /\ m > 0 => IntPow(10, m - 1) < IntPow(calc.base, calc.digits)

\* C23 (bad base is rejected): a digit-producing call with a base outside
\* 2..36 ends with an invalid-argument failure: it returns nothing, raises
\* no other kind of error, and does not keep running.
C23_BadBaseRejected ==
    (calc.op \in {"precision", "integer_to_base", "chunks"} /\ calc.base \notin 2..36) =>
        /\ calc.result.pc # "returned"
        /\ calc.result.pc = "raised" => calc.result.raised = "ValueError"
        /\ calc.op = "integer_to_base" => Len(calc.s) < MaxPasses

\* "".join of the chunks given out
RECURSIVE ConcatChunks(_)
ConcatChunks(chunks) ==
    IF chunks = <<>> THEN <<>> ELSE Head(chunks) \o ConcatChunks(Tail(chunks))

\* C27 (fractional digit stream and its chunking): for a digit count
\* N >= 0, a base in 2..36 and chunk_size >= 1, iter_fractional_digits
\* yields exactly N symbols, each in [0, base); iter_fractional_chunks
\* yields ceil(N / chunk_size) chunks, none empty, all but possibly the last
\* of chunk_size characters, whose concatenation is the digits mapped
\* through the alphabet 0-9a-z.
C27_DigitStream ==
    (calc.op = "chunks" /\ calc.digits >= 0 /\ calc.base \in 2..36) =>
        /\ calc.result.pc # "raised"
        /\ Len(calc.ds) <= calc.digits
        /\ \A i \in 1..Len(calc.ds) : calc.ds[i] \in 0..(calc.base - 1)
        /\ \A i \in 1..Len(calc.chunks) :
              /\ calc.chunks[i] # <<>>
              /\ (i < Len(calc.chunks) \/ calc.result.pc = "running")
                    => Len(calc.chunks[i]) = calc.chunk_size
              /\ Len(calc.chunks[i]) <= calc.chunk_size
        /\ Len(calc.buf) < calc.chunk_size
        /\ ConcatChunks(calc.chunks) \o calc.buf
              = [i \in 1..Len(calc.ds) |-> StreamAlphabet[calc.ds[i] + 1]]
        /\ calc.result.pc = "returned" =>
              /\ Len(calc.ds) = calc.digits
              /\ calc.buf = <<>>
              /\ Len(calc.chunks) = (calc.digits + calc.chunk_size - 1) \div calc.chunk_size

\* the value of a character of the alphabet 0-9a-z
AlphabetValue(ch) == (CHOOSE d \in 1..Len(StreamAlphabet) : StreamAlphabet[d] = ch) - 1
\* the number whose digits are ds, the most significant first
RECURSIVE DigitsValue(_, _)
DigitsValue(ds, base) ==
    IF ds = <<>> THEN 0
    ELSE DigitsValue(SubSeq(ds, 1, Len(ds) - 1), base) * base + AlphabetValue(ds[Len(ds)])
\* int(str, base) of a text of digits with an optional leading minus
ParseInt(str, base) ==
    IF str # <<>> /\ Head(str) = "-" THEN 0 - DigitsValue(Tail(str), base)
    ELSE DigitsValue(str, base)

\* C28 (integer-to-base conversion): for an integer n and a base in 2..36,
\* integer_to_base(n, base) terminates (each pass of the loop divides m by
\* the base, so base^passes <= |n|) and returns "0" for n = 0 and otherwise
\* the base-`base` digits of |n|, most significant first, without leading
\* zeros, over the alphabet 0-9a-z, with a leading "-" exactly when n < 0;
\* parsing the text in that base gives n back.
C28_IntegerToBase ==
    (calc.op = "integer_to_base" /\ calc.base \in 2..36) =>
        /\ calc.result.pc # "raised"
        /\ calc.result.pc = "running" =>
              /\ calc.m >= 0
              /\ calc.m * IntPow(calc.base, Len(calc.s)) + DigitsValue(Reversed(calc.s), calc.base)
                    = (IF calc.n < 0 THEN 0 - calc.n ELSE calc.n)
              /\ calc.m # 0 => Len(calc.s) < MaxPasses
        /\ calc.result.pc = "returned" =>
              LET text == calc.result.value
                  digits == IF calc.n < 0 THEN Tail(text) ELSE text
              IN  /\ calc.n = 0 => text = <<"0">>
                  /\ text # <<>>
                  /\ (Head(text) = "-") = (calc.n < 0)
                  /\ digits # <<>>
                  /\ \A i \in 1..Len(digits) :
                        \E d \in 1..calc.base : digits[i] = StreamAlphabet[d]
                  /\ calc.n # 0 => Head(digits) # "0"
                  /\ DigitsValue(digits, calc.base) = (IF calc.n < 0 THEN 0 - calc.n ELSE calc.n)
                  /\ ParseInt(text, calc.base) = calc.n

\* -37 in base 36 is -11
C28_Witness ==
    /\ calc.op = "integer_to_base" /\ calc.n = 0 - 37 /\ calc.base = 36
    /\ calc.result.pc = "returned" /\ calc.result.value = <<"-", "1", "1">>

\* 38 in base 2, by the loop, and -40 in base 10, by str
C28_WitnessBinary ==
    /\ calc.op = "integer_to_base" /\ calc.n = 38 /\ calc.base = 2
    /\ calc.result.pc = "returned" /\ calc.result.value = <<"1", "0", "0", "1", "1", "0">>
C28_WitnessDecimal ==
    /\ calc.op = "integer_to_base" /\ calc.n = 0 - 40 /\ calc.base = 10
    /\ calc.result.pc = "returned" /\ calc.result.value = <<"-", "4", "0">>

(***************************************************************************)
(* The combine rule of chudnovsky.py on its own: _combine applied to       *)
(* triples in both groupings and both orders, and the merge step of _bs    *)
(* beside _combine of the two halves.                                      *)
(***************************************************************************)
\* the start of the ordered fold (l.70)
BsIdentity == _BSTuple(IntOf(1), IntOf(1), IntOf(0))
CombineValues == {0 - 2, 0, 3}
\* the triples combined: those of the terms 0, 1 and 2, and the triples with
\* p, q and t in CombineValues
CombineTriples ==
    {_bs(0, 1), BsTerm(1), BsTerm(2)}
    \cup {_BSTuple(IntOf(p), IntOf(q), IntOf(t)) :
            p \in CombineValues, q \in CombineValues, t \in CombineValues}

Combine ==
    /\ calc = NoCalc
    /\ \E a \in CombineTriples, b \in CombineTriples, c \in CombineTriples :
          calc' = [op |-> "combine", a |-> a, b |-> b, c |-> c,
                   ab |-> _combine(a, b), ba |-> _combine(b, a),
                   ab_c |-> _combine(_combine(a, b), c),
                   a_bc |-> _combine(a, _combine(b, c)),
                   ea |-> _combine(BsIdentity, a)]

\* _bs(a, b) for b - a >= 2: the two halves and the triple returned
BsMerge ==
    /\ calc = NoCalc
    /\ \E a \in 0..(MaxTerms - 2) :
         \E b \in (a + 2)..MaxTerms :
            calc' = [op |-> "merge", a |-> a, b |-> b,
                     left |-> _bs(a, (a + b) \div 2), right |-> _bs((a + b) \div 2, b),
                     bs |-> _bs(a, b)]

NextCombine ==
    \/ Combine /\ UNCHANGED <<containerVars, envelopeVars>>
    \/ BsMerge /\ UNCHANGED <<containerVars, envelopeVars>>

SpecCombine == Init /\ [][NextCombine]_vars

\* C24 (combine rule algebra): _combine is associative, (1, 1, 0) is a left
\* identity of it, the triples of the terms 0 and 1 do not commute under
\* it, and the merge step of _bs gives what _combine gives for the two
\* halves.
C24_CombineAlgebra ==
    /\ calc.op = "combine" =>
          /\ calc.ab_c = calc.a_bc
          /\ calc.ea = calc.a
          /\ calc.ab = _BSTuple(IntMul(calc.a.p, calc.b.p), IntMul(calc.a.q, calc.b.q),
                                IntAdd(IntMul(calc.a.t, calc.b.q), IntMul(calc.a.p, calc.b.t)))
          /\ (calc.a = _bs(0, 1) /\ calc.b = BsTerm(1)) => calc.ab # calc.ba
    /\ calc.op = "merge" => calc.bs = _combine(calc.left, calc.right)

\* the terms 0, 1 and 2: the two groupings agree, the two orders do not
C24_Witness ==
    /\ calc.op = "combine"
    /\ calc.a = _bs(0, 1) /\ calc.b = BsTerm(1) /\ calc.c = BsTerm(2)
    /\ calc.ab_c = calc.a_bc /\ calc.ab_c = _bs(0, 3)
    /\ calc.ab # calc.ba

\* the merge of [0, 2) and [2, 5)
C24_WitnessMerge ==
    /\ calc.op = "merge" /\ calc.a = 0 /\ calc.b = 5
    /\ calc.bs = _combine(_bs(0, 2), _bs(2, 5))

====
